---- MODULE Spec2Model ----
(***************************************************************************)
(* Model of the task orchestration runtime of the job search assistant:   *)
(* TaskManager.process_task (coordinator/task_manager.py) together with   *)
(* its collaborators, the session store and the runner's event stream.    *)
(*                                                                         *)
(* Python values are records [kind, v]: kind is the Python type, v the    *)
(* content as a sequence of strings.  A str is the sequence of its        *)
(* lexical tokens, a dict is the sequence of the JSON documents it was    *)
(* built from; an empty v is the empty str / empty dict, which Python     *)
(* treats as falsy.                                                        *)
(***************************************************************************)
EXTENDS Integers, Sequences, FiniteSets, TLC

(***************************************************************************)
(* Bounds of the model.                                                    *)
(***************************************************************************)
MaxEvents == 4
MaxStreamEvents == 3
MaxCalls == 2          \* process_task calls on one TaskManager
MaxTaskEvents == 1     \* events of the stream of a concurrent call
MaxListings == 2       \* listings handed to the approval tool
MaxTransfers == 4      \* sub-agent runs within one task
MaxInflight == 1       \* requests the server handles at a time
MaxBlank == 1          \* longest run of blanks around a payload
MaxPayloadLen == 2     \* longest payload with no structure at all

(***************************************************************************)
(* Program constants.                                                      *)
(***************************************************************************)
A2A_APP_NAME == "job_search_assistant"
DEFAULT_TIMEOUT == 300
RAW_EVENTS_KEPT == 3
DependencyAttempts == 30
InitialMessage == "Processing job search..."

(***************************************************************************)
(* Python values.                                                          *)
(***************************************************************************)
None == [kind |-> "none", v |-> <<>>]
Absent == [kind |-> "absent", v |-> <<>>]
Dict(doc) == [kind |-> "dict", v |-> <<doc>>]
EmptyDict == [kind |-> "dict", v |-> <<>>]
Str(toks) == [kind |-> "str", v |-> toks]

\* Python truthiness of a value: None, "" and {} are falsy.
Truthy(x) == x.kind \notin {"none", "absent"} /\ x.v # <<>>

IsStr(x) == x.kind = "str"

(***************************************************************************)
(* Strings are sequences of tokens: "ws" (blank), "nl" (newline), "fence"   *)
(* (a fence), "json" (the language tag the pattern knows), "tag" (any     *)
(* other language tag), "J1", "J2" (two well-formed JSON documents) and   *)
(* "bad" (text that is not JSON, such as {a:1}).                          *)
(***************************************************************************)
JsonDocs == {"J1", "J2"}
Blank == {"ws", "nl"}

\* The sequences over S of length n at most.
SeqsUpTo(S, n) == UNION {[1..k -> S] : k \in 0..n}

RECURSIVE LStrip(_)
LStrip(s) == IF s # <<>> /\ Head(s) \in Blank THEN LStrip(Tail(s)) ELSE s

RECURSIVE RStrip(_)
RStrip(s) ==
    IF s # <<>> /\ s[Len(s)] \in Blank
    THEN RStrip(SubSeq(s, 1, Len(s) - 1))
    ELSE s

\* str.strip()
Strip(s) == LStrip(RStrip(s))

\* re.sub with the fence pattern: its first alternative (fence, optional
\* json tag, newline) matches only at the start of s, its second alternative
\* only a fence that ends s.
OpeningFenceLen(s) ==
    IF Len(s) >= 3 /\ s[1] = "fence" /\ s[2] = "json" /\ s[3] = "nl" THEN 3
    ELSE IF Len(s) >= 2 /\ s[1] = "fence" /\ s[2] = "nl" THEN 2
    ELSE 0

ReSubFence(s) ==
    LET n == OpeningFenceLen(s)
        rest == SubSeq(s, n + 1, Len(s))
    IN  IF rest # <<>> /\ rest[Len(rest)] = "fence"
        THEN SubSeq(rest, 1, Len(rest) - 1)
        ELSE rest

\* json.loads(s): blanks around one JSON document are accepted, anything
\* else raises JSONDecodeError.
JsonParses(s) == Len(Strip(s)) = 1 /\ Strip(s)[1] \in JsonDocs

JsonLoads(s) == Dict(Strip(s)[1])

\* The clean-up the orchestrator applies to a str payload before json.loads.
CleanJson(x) == ReSubFence(Strip(x.v))


(***************************************************************************)
(* Step events.  An event carries an optional state_update for the two    *)
(* recognised keys (Absent: the key is not in the update), the result of  *)
(* is_final_response(), and a content: its role ("none": no content) and  *)
(* the text of its first part ("": no parts or no text).                  *)
(***************************************************************************)
Event(jl, cr, final, role, text) ==
    [job_listings |-> jl, company_research_report |-> cr,
     final |-> final, role |-> role, text |-> text]

M1 == Dict("M1")
M2 == Dict("M2")
S1 == Dict("S1")
StrFenced == Str(<<"fence", "json", "nl", "J1", "nl", "fence">>)
StrPlain == Str(<<"J2">>)
StrBad == Str(<<"fence", "json", "nl", "bad", "nl", "fence">>)

JobListingsValues == {M1, M2, EmptyDict, StrFenced, StrBad}
CompanyResearchValues == {M1, StrFenced, StrBad}
Texts == {"done", "hello"}

UpdateEvents ==
    {Event(jl, Absent, FALSE, "none", "") : jl \in JobListingsValues}
    \cup {Event(Absent, cr, FALSE, "none", "") : cr \in CompanyResearchValues}

TextEvents ==
    {Event(Absent, Absent, TRUE, "model", t) : t \in Texts \cup {""}}
    \cup {Event(Absent, Absent, TRUE, "user", "hi"),
          Event(Absent, Absent, FALSE, "model", "thinking")}

Events == UpdateEvents \cup TextEvents

\* A pipeline that emits one kind of update per key and one final answer.
CoreEvents ==
    {Event(M1, Absent, FALSE, "none", ""),
     Event(Absent, StrFenced, FALSE, "none", ""),
     Event(Absent, Absent, TRUE, "model", "done")}

\* event.model_dump(exclude_none=True): the fields of the event that are set.
ModelDump(e) ==
    [k \in {f \in {"job_listings", "company_research_report"} : e[f] # Absent}
           \cup {"final"}
           \cup (IF e.role # "none" THEN {"role", "text"} ELSE {}) |-> e[k]]

(***************************************************************************)
(* Exceptions, outcomes and the result of a call.                          *)
(***************************************************************************)
Exc(cls, text) == [cls |-> cls, text |-> text]
NoExc == Exc("", "")
CancelledError == Exc("CancelledError", "")

SessionExceptions == {Exc("KeyError", "no such session")}
CreateExceptions == {Exc("AlreadyExistsError", "session exists")}
StreamExceptions ==
    {Exc("ValueError", "boom"), Exc("RuntimeError", "tool failed"),
     Exc("TimeoutError", "upstream timed out")}

\* except asyncio.TimeoutError
IsTimeoutError(e) == e.cls = "TimeoutError"

Outcome(message, status, data) ==
    [message |-> message, status |-> status, data |-> data]
NoOutcome == Outcome(<<>>, "", <<>>)

ValidationOutcome ==
    Outcome(<<"user_id is required in the request">>, "error",
            "error_type" :> "ValidationError")

\* The timeout outcome reporting the default in place of self.timeout.
\* The timeout outcome carrying an event log as the success outcome does.
TimeoutOutcomeWithLog(t) ==
    Outcome(<<"Request timed out after ", ToString(t),
              " seconds. Please try again.">>, "error",
            ("error_type" :> "TimeoutError") @@ ("timeout" :> t)
               @@ ("raw_events" :> <<>>))

TimeoutOutcomeDefault(t) ==
    Outcome(<<"Request timed out after ", ToString(t),
              " seconds. Please try again.">>, "error",
            ("error_type" :> "TimeoutError") @@ ("timeout" :> DEFAULT_TIMEOUT))

TimeoutOutcome(t) ==
    Outcome(<<"Request timed out after ", ToString(t),
              " seconds. Please try again.">>, "error",
            ("error_type" :> "TimeoutError") @@ ("timeout" :> t))

\* The error outcome with a fixed message.
ErrorOutcomeNoText(e) ==
    Outcome(<<"Error processing your request">>, "error",
            "error_type" :> e.cls)

ErrorOutcome(e) ==
    Outcome(<<"Error processing your request: ", e.text>>, "error",
            "error_type" :> e.cls)

Returned(o) == [kind |-> "return", outcome |-> o, exc |-> NoExc]
Raised(e) == [kind |-> "raise", outcome |-> NoOutcome, exc |-> e]
NoResult == [kind |-> "none", outcome |-> NoOutcome, exc |-> NoExc]

(***************************************************************************)
(* The session store: one entry per session id of the application and     *)
(* user at hand.                                                           *)
(***************************************************************************)
SessionState(jl, cr) == [job_listings |-> jl, company_research_report |-> cr]
EmptyState == SessionState(Absent, Absent)
NoSession == [exists |-> FALSE, state |-> EmptyState]
Session(st) == [exists |-> TRUE, state |-> st]

GivenSessionId == "s1"
GeneratedSessionId == "u1_job_search_0a1b2c3d"
SessionIds == {GivenSessionId, GeneratedSessionId}

StoredStates ==
    {EmptyState, SessionState(S1, Absent), SessionState(Absent, StrFenced)}

Contexts == {<<>>, "user_id" :> "", "user_id" :> "u1"}
Timeouts == {1, 2}

\* dict.get(key)
DictGet(d, key) == IF key \in DOMAIN d THEN d[key] ELSE "None"

\* A test for None in place of the truthiness test.
TruthyStrNotNone(x) == x # "None"

\* truthiness of a str or None
TruthyStr(x) == x \notin {"None", ""}


(***************************************************************************)
(* Result extraction at the end of process_task.                           *)
(***************************************************************************)
\* raw_events[:3] in place of raw_events[-3:]
FirstRawEvents(raw) ==
    IF Len(raw) > RAW_EVENTS_KEPT THEN SubSeq(raw, 1, RAW_EVENTS_KEPT) ELSE raw

\* raw_events[-3:] if raw_events else []
LastRawEvents(raw) ==
    IF Len(raw) > RAW_EVENTS_KEPT
    THEN SubSeq(raw, Len(raw) - RAW_EVENTS_KEPT + 1, Len(raw))
    ELSE raw

\* json.loads of the cleaned payload; Absent when json.loads raises.
ParsePayload(x) ==
    IF JsonParses(CleanJson(x)) THEN JsonLoads(CleanJson(x)) ELSE Absent

\* The job_listings block storing the payload before it parses it.
ExtractJobListingsKeepRaw(jl) ==
    IF ~Truthy(jl) THEN Absent
    ELSE IF IsStr(jl) /\ JsonParses(CleanJson(jl)) THEN JsonLoads(CleanJson(jl))
    ELSE jl

\* The job_listings block storing a str payload as it came.
ExtractJobListingsUnparsed(jl) == IF ~Truthy(jl) THEN Absent ELSE jl

\* The job_listings block: the value stored in response_data, Absent when
\* the block is skipped or its exception handler runs.
ExtractJobListings(jl) ==
    IF ~Truthy(jl) THEN Absent
    ELSE IF IsStr(jl) THEN ParsePayload(jl)
    ELSE jl

\* "import json" and "import re" are statements of the job_listings block:
\* the names are bound only when that block runs.
JsonImported(jl) == Truthy(jl)

\* The company_research block: with json and re unbound the str branch
\* raises and its exception handler leaves the field out.
ExtractCompanyResearch(cr, imported) ==
    IF ~Truthy(cr) THEN Absent
    ELSE IF IsStr(cr) THEN (IF imported THEN ParsePayload(cr) ELSE Absent)
    ELSE cr

Field(key, x) == IF x = Absent THEN <<>> ELSE key :> x

ResponseData(raw, jl, cr) ==
    ("raw_events" :> LastRawEvents(raw))
    @@ Field("job_listings", ExtractJobListings(jl))
    @@ Field("company_research", ExtractCompanyResearch(cr, JsonImported(jl)))

SuccessOutcome(msg, raw, jl, cr) ==
    Outcome(<<msg>>, "success", ResponseData(raw, jl, cr))

\* Lines 224 and 235: the accumulator is rebound to the parsed document.
Rebound(acc, extracted) == IF extracted # Absent THEN extracted ELSE acc

\* Backfill of one accumulator from the re-read session state.
Backfill(acc, st, key) ==
    IF ~Truthy(acc) /\ st[key] # Absent THEN st[key] ELSE acc

\* final_session and final_session.state
HasState(sess) == sess.exists /\ sess.state # EmptyState

(***************************************************************************)
(* State.                                                                  *)
(***************************************************************************)
VARIABLES
    pipeline,          \* the agent behind self.runner: the events it can
                       \* emit and how many it emits at most
    timeout,           \* self.timeout
    sessions,          \* self.session_service, by session id
    context,           \* argument of process_task
    session_id,        \* argument of process_task, then the id in use
    pc,                \* the await point process_task is at
    job_listings,      \* accumulator
    company_research,  \* accumulator
    final_message,     \* accumulator
    raw_events,        \* accumulator
    runner_generator,  \* "None", "open", "finished" or "closed"
    pending,           \* what leaves the inner try once its finally has run
    result,            \* what process_task returned or raised
    trace,             \* collaborator calls made by process_task, in order
    deadline_elapsed,  \* the deadline of wait_for expired
    stream_error,      \* the exception the stream raised, if any
    calls,             \* number of process_task calls begun on this TaskManager
    earlier,           \* what the calls before the current one left behind
    payload,           \* the str handed to the extractor
    extracted,         \* what the extractor made of payload
    build,             \* progress of create_coordinator_agent
    exit_stack,        \* callbacks of the coordinator's AsyncExitStack
    leases,            \* the toolset of each agent: "none", "held", "released"
                       \* or "close_failed"
    releases,          \* the close calls made on toolsets, in order
    teardown,          \* progress of the exit of the composite handle
    mpc,               \* position of main
    env_valid,         \* what validate_environment returned
    health,            \* the HealthChecker: status and is_healthy
    health_runner,     \* the health server: "none", "up" or "cleaned"
    deps,              \* wait_for_dependencies: probes made and its result
    shutdown_event,    \* the asyncio.Event the signal handler sets
    should_exit,       \* server.should_exit
    server_task,       \* the task running server.serve()
    inflight,          \* requests the server is handling
    main_exc,          \* the exception travelling up main: "none", "error"
                       \* or "cancel"
    main_result,       \* how main ended
    main_cancelled,    \* the main task has been cancelled
    running,           \* the sub-agent the coordinator has transferred to
    executed,          \* the sub-agent runs that finished, in order
    agent_state,       \* the output keys written to the session state
    tasks,             \* the concurrent process_task calls
    session_service,   \* the session store the concurrent calls share
    listings,          \* the argument of external_approval_tool
    approval,          \* what external_approval_tool returned
    task_result,       \* what process_task gave the /run-job-search handler
    response,          \* what the /run-job-search handler returned
    tracked,           \* the state of each task given to the TaskTracker
    running_tasks,     \* TaskTracker.running_tasks
    callbacks,         \* the tasks whose done callback is scheduled
    gathered,          \* the tasks cleanup() passed to asyncio.gather
    tracker_pc         \* position of TaskTracker.cleanup

taskVars == <<pipeline, timeout, sessions, context, session_id, pc,
              job_listings, company_research, final_message, raw_events,
              runner_generator, pending, result, trace, deadline_elapsed,
              stream_error>>
reuseVars == <<calls, earlier>>
extractVars == <<payload, extracted>>
leaseVars == <<build, exit_stack, leases, releases, teardown>>
mainVars == <<mpc, env_valid, health, health_runner, deps, shutdown_event,
              should_exit, server_task, inflight, main_exc,
              main_result, main_cancelled>>
pipeVars == <<running, executed, agent_state>>
concVars == <<tasks, session_service>>
approvalVars == <<listings, approval>>
serverVars == <<task_result, response>>
trackerVars == <<tracked, running_tasks, callbacks, gathered, tracker_pc>>
restVars == <<serverVars, trackerVars>>
laterVars == <<mainVars, pipeVars, concVars, approvalVars, restVars>>

vars == <<taskVars, reuseVars, extractVars, leaseVars, laterVars>>

accumulators == <<job_listings, company_research, final_message, raw_events>>

NoPending == [kind |-> "none", outcome |-> NoOutcome, exc |-> NoExc]
PendingReturn(o) == [kind |-> "return", outcome |-> o, exc |-> NoExc]
PendingRaise(e) == [kind |-> "raise", outcome |-> NoOutcome, exc |-> e]

user_id == DictGet(context, "user_id")

(***************************************************************************)
(* Values of the variables of a part of the program that a specification  *)
(* leaves out.                                                             *)
(***************************************************************************)
NoEarlierCall == [creates |-> 0, session |-> NoSession]
FirstCall == calls = 1 /\ earlier = NoEarlierCall

NoExtraction == [by |-> "", value |-> None]
ExtractorIdle == payload = None /\ extracted = NoExtraction

AgentOrder == <<"job_coach", "job_listing", "company_research">>
Agents == {AgentOrder[i] : i \in 1..Len(AgentOrder)}
NotBuilt == [pc |-> "create", next |-> 1]
NoTeardown == [state |-> "none", body_failed |-> FALSE, failure |-> "none"]
LeasesIdle ==
    /\ build = NotBuilt
    /\ exit_stack = <<>>
    /\ leases = [a \in Agents |-> "none"]
    /\ releases = <<>>
    /\ teardown = NoTeardown

Health(status) == [status |-> status, is_healthy |-> status = "healthy"]
NoProbe == [probes |-> 0, ok |-> FALSE, done |-> FALSE]
MainIdle ==
    /\ mpc = "idle"
    /\ env_valid = TRUE
    /\ health = Health("starting")
    /\ health_runner = "none"
    /\ deps = NoProbe
    /\ shutdown_event = FALSE
    /\ should_exit = FALSE
    /\ server_task = "none"
    /\ inflight = 0
    /\ main_exc = "none"
    /\ main_result = "none"
    /\ main_cancelled = FALSE

PipeIdle ==
    /\ running = "none"
    /\ executed = <<>>
    /\ agent_state = {}

ConcIdle ==
    /\ tasks = <<>>
    /\ session_service = <<>>

NoApproval == [status |-> "", ticket_id |-> ""]
ApprovalIdle ==
    /\ listings = <<>>
    /\ approval = NoApproval

NoResponse == [kind |-> "none"]
ServerIdle ==
    /\ task_result = [kind |-> "none"]
    /\ response = NoResponse

TaskNames == {"agent_init", "uvicorn_server"}
TrackerIdle ==
    /\ tracked = [t \in TaskNames |-> "new"]
    /\ running_tasks = {}
    /\ callbacks = {}
    /\ gathered = {}
    /\ tracker_pc = "idle"

RestIdle ==
    /\ ServerIdle
    /\ TrackerIdle

LaterIdle ==
    /\ MainIdle
    /\ PipeIdle
    /\ ConcIdle
    /\ ApprovalIdle
    /\ RestIdle

TaskIdle ==
    /\ pipeline = [events |-> {}, limit |-> 0]
    /\ timeout = DEFAULT_TIMEOUT
    /\ sessions = [id \in SessionIds |-> NoSession]
    /\ context = <<>>
    /\ session_id = "None"
    /\ pc = "idle"
    /\ job_listings = None
    /\ company_research = None
    /\ final_message = InitialMessage
    /\ raw_events = <<>>
    /\ runner_generator = "None"
    /\ pending = NoPending
    /\ result = NoResult
    /\ trace = <<>>
    /\ deadline_elapsed = FALSE
    /\ stream_error = NoExc

Init ==
    /\ pipeline = [events |-> CoreEvents, limit |-> MaxEvents]
    /\ timeout \in Timeouts
    /\ sessions \in {[id \in SessionIds |-> NoSession]}
                    \cup {[id \in SessionIds |->
                             IF id = GivenSessionId THEN Session(st)
                             ELSE NoSession] : st \in StoredStates}
    /\ context \in Contexts
    /\ session_id \in {"None", GivenSessionId}
    /\ pc = "start"
    /\ job_listings = None
    /\ company_research = None
    /\ final_message = InitialMessage
    /\ raw_events = <<>>
    /\ runner_generator = "None"
    /\ pending = NoPending
    /\ result = NoResult
    /\ trace = <<>>
    /\ deadline_elapsed = FALSE
    /\ stream_error = NoExc
    /\ FirstCall
    /\ ExtractorIdle
    /\ LeasesIdle
    /\ LaterIdle


(***************************************************************************)
(* process_task, one action per stretch of code between two awaits.        *)
(***************************************************************************)
Log(call) == trace' = Append(trace, call)

\* Lines 60-72: validation of the context and choice of the session id.
Validate ==
    /\ pc = "start"
    /\ IF ~TruthyStr(user_id)
       THEN /\ result' = Returned(ValidationOutcome)
            /\ pc' = "done"
            /\ UNCHANGED session_id
       ELSE /\ session_id' = IF ~TruthyStr(session_id)
                             THEN GeneratedSessionId ELSE session_id
            /\ pc' = "get_session"
            /\ UNCHANGED result
    /\ UNCHANGED <<pipeline, timeout, sessions, context, accumulators,
                   runner_generator, pending, trace, deadline_elapsed,
                   stream_error>>
    /\ UNCHANGED laterVars
    /\ UNCHANGED <<reuseVars, extractVars, leaseVars>>

\* Lines 75-83 and 92-96: the lookup returns the stored session, returns
\* None, or raises.
GetSession ==
    /\ pc = "get_session"
    /\ \/ /\ Log("get_session")
          /\ pc' = IF sessions[session_id].exists
                   THEN "run_async" ELSE "create_session"
       \/ /\ Log("get_session:raise")
          /\ pc' = "create_fallback"
    /\ UNCHANGED <<pipeline, timeout, sessions, context, session_id,
                   accumulators, runner_generator, pending, result,
                   deadline_elapsed, stream_error>>
    /\ UNCHANGED laterVars
    /\ UNCHANGED <<reuseVars, extractVars, leaseVars>>

\* A create_session that reports success and stores nothing.
CreateNotStored(store, id) == store

\* session_service.create_session(..., state={}) when it succeeds.
CreateStored(store, id) == [store EXCEPT ![id] = Session(EmptyState)]

\* Lines 85-91: creation inside the try; its failure is handled by the
\* except clause of lines 95-103.
CreateSession ==
    /\ pc = "create_session"
    /\ \/ /\ Log("create_session")
          /\ sessions' = CreateStored(sessions, session_id)
          /\ pc' = "run_async"
       \/ /\ Log("create_session:raise")
          /\ pc' = "create_fallback"
          /\ UNCHANGED sessions
    /\ UNCHANGED <<pipeline, timeout, context, session_id, accumulators,
                   runner_generator, pending, result, deadline_elapsed,
                   stream_error>>
    /\ UNCHANGED laterVars
    /\ UNCHANGED <<reuseVars, extractVars, leaseVars>>

\* Lines 97-103: creation inside the except clause; nothing encloses it.
CreateFallback ==
    /\ pc = "create_fallback"
    /\ \/ /\ Log("create_session")
          /\ sessions' = CreateStored(sessions, session_id)
          /\ pc' = "run_async"
          /\ UNCHANGED result
       \/ \E e \in CreateExceptions :
             /\ Log("create_session:raise")
             /\ result' = Raised(e)
             /\ pc' = "done"
             /\ UNCHANGED sessions
    /\ UNCHANGED <<pipeline, timeout, context, session_id, accumulators,
                   runner_generator, pending, deadline_elapsed, stream_error>>
    /\ UNCHANGED laterVars
    /\ UNCHANGED <<reuseVars, extractVars, leaseVars>>

\* Lines 105-128 and 161-165: the accumulators are initialised and the
\* stream is started; if run_async raises, the finally clause has nothing to
\* close and the handler of line 167 or of lines 247-253 builds the outcome.
RunAsync ==
    /\ pc = "run_async"
    /\ job_listings' = None
    /\ company_research' = None
    /\ final_message' = InitialMessage
    /\ raw_events' = <<>>
    /\ \/ /\ Log("run_async")
          /\ runner_generator' = "open"
          /\ pc' = "consume"
          /\ UNCHANGED result
       \/ \E e \in StreamExceptions :
             /\ Log("run_async:raise")
             /\ result' = Returned(IF IsTimeoutError(e)
                                   THEN TimeoutOutcome(timeout)
                                   ELSE ErrorOutcome(e))
             /\ pc' = "done"
             /\ UNCHANGED runner_generator
    /\ UNCHANGED <<pipeline, timeout, sessions, context, session_id, pending,
                   deadline_elapsed, stream_error>>
    /\ UNCHANGED laterVars
    /\ UNCHANGED <<reuseVars, extractVars, leaseVars>>

\* Lines 139-146: the state update of one event applied to an accumulator.
Update(acc, e, key) == IF e[key] # Absent THEN e[key] ELSE acc

\* The final message taken from any event of the pipeline, terminal or not.
FinalMessageAnyEvent(msg, e) ==
    IF e.role = "model" /\ e.text # "" THEN e.text ELSE msg

\* The final message taken from terminal events of any author.
FinalMessageAnyRole(msg, e) ==
    IF e.final /\ e.role # "none" /\ e.text # "" THEN e.text ELSE msg

\* Lines 149-151: the final message after one event.
FinalMessage(msg, e) ==
    IF e.final /\ e.role = "model" /\ e.text # "" THEN e.text ELSE msg

\* Lines 135-152: one iteration of the loop over the stream.
ConsumeEvent ==
    /\ pc = "consume"
    /\ Len(raw_events) < pipeline.limit
    /\ \E e \in pipeline.events :
          /\ raw_events' = Append(raw_events, ModelDump(e))
          /\ job_listings' = Update(job_listings, e, "job_listings")
          /\ company_research' =
                Update(company_research, e, "company_research_report")
          /\ final_message' = FinalMessage(final_message, e)
    /\ UNCHANGED <<pipeline, timeout, sessions, context, session_id, pc,
                   runner_generator, pending, result, trace, deadline_elapsed,
                   stream_error>>
    /\ UNCHANGED laterVars
    /\ UNCHANGED <<reuseVars, extractVars, leaseVars>>

\* The pipeline persists a value to the session state while it runs.
PipelineWrite ==
    /\ pc = "consume"
    /\ sessions[session_id].exists
    /\ \E key \in {"job_listings", "company_research_report"} :
          /\ sessions[session_id].state[key] # S1
          /\ sessions' = [sessions EXCEPT ![session_id].state[key] = S1]
    /\ UNCHANGED <<pipeline, timeout, context, session_id, pc, accumulators,
                   runner_generator, pending, result, trace, deadline_elapsed,
                   stream_error>>
    /\ UNCHANGED laterVars
    /\ UNCHANGED <<reuseVars, extractVars, leaseVars>>

\* The stream ends: the loop and wait_for complete, the finally clause runs.
StreamEnd ==
    /\ pc = "consume"
    /\ runner_generator' = "finished"
    /\ pending' = NoPending
    /\ pc' = "finally_close"
    /\ UNCHANGED <<pipeline, timeout, sessions, context, session_id,
                   accumulators, result, trace, deadline_elapsed,
                   stream_error>>
    /\ UNCHANGED laterVars
    /\ UNCHANGED <<reuseVars, extractVars, leaseVars>>

\* Lines 154-167: the stream raises; the handlers of the loop re-raise, and
\* the except clause of line 167 takes every asyncio.TimeoutError.
StreamRaise ==
    /\ pc = "consume"
    /\ \E e \in StreamExceptions :
          /\ stream_error' = e
          /\ IF IsTimeoutError(e)
             THEN /\ pc' = "timeout_close"
                  /\ UNCHANGED pending
             ELSE /\ pc' = "finally_close"
                  /\ pending' = PendingRaise(e)
    /\ runner_generator' = "finished"
    /\ UNCHANGED <<pipeline, timeout, sessions, context, session_id,
                   accumulators, result, trace, deadline_elapsed>>
    /\ UNCHANGED laterVars
    /\ UNCHANGED <<reuseVars, extractVars, leaseVars>>

\* Lines 162-168: the deadline expires; wait_for cancels the loop and
\* raises asyncio.TimeoutError.
DeadlineExpire ==
    /\ pc = "consume"
    /\ deadline_elapsed' = TRUE
    /\ pc' = "timeout_close"
    /\ UNCHANGED <<pipeline, timeout, sessions, context, session_id,
                   accumulators, runner_generator, pending, result, trace,
                   stream_error>>
    /\ UNCHANGED laterVars
    /\ UNCHANGED <<reuseVars, extractVars, leaseVars>>

\* runner_generator.aclose(), which returns or raises an Exception that the
\* caller logs.
Aclose(ok) ==
    /\ Log(IF ok THEN "aclose" ELSE "aclose:raise")
    /\ runner_generator' = "closed"

\* A close whose failure leaves the try in place of what was leaving it.
AfterCloseUnguarded(ok, p) ==
    IF ok THEN p ELSE PendingRaise(Exc("RuntimeError", "aclose failed"))

\* Lines 170-173 and 184-187: an Exception raised by aclose is logged, and
\* what was leaving the try (nothing, a return or an exception) still does.
AfterClose(ok, p) == p

\* Lines 168-179: the handler of asyncio.TimeoutError closes the stream and
\* returns the timeout outcome, which passes through the finally clause.
TimeoutClose ==
    /\ pc = "timeout_close"
    /\ \E ok \in BOOLEAN :
          /\ Aclose(ok)
          /\ pending' = AfterClose(ok, PendingReturn(TimeoutOutcome(timeout)))
    /\ pc' = "finally_close"
    /\ UNCHANGED <<pipeline, timeout, sessions, context, session_id,
                   accumulators, result, deadline_elapsed, stream_error>>
    /\ UNCHANGED laterVars
    /\ UNCHANGED <<reuseVars, extractVars, leaseVars>>

\* process_task without the finally clause of lines 181-187.
FinallyCloseMissing ==
    /\ pc = "finally_close"
    /\ CASE pending.kind = "none" ->
              /\ pc' = "reread"
              /\ UNCHANGED result
         [] pending.kind = "return" ->
              /\ pc' = "done"
              /\ result' = Returned(pending.outcome)
         [] pending.kind = "raise" /\ pending.exc = CancelledError ->
              /\ pc' = "done"
              /\ result' = Raised(CancelledError)
         [] OTHER ->
              /\ pc' = "done"
              /\ result' = Returned(ErrorOutcome(pending.exc))
    /\ UNCHANGED <<pipeline, timeout, sessions, context, session_id,
                   accumulators, runner_generator, pending, trace,
                   deadline_elapsed, stream_error>>
    /\ UNCHANGED laterVars
    /\ UNCHANGED <<reuseVars, extractVars, leaseVars>>

\* Lines 181-187 and 247-253: the finally clause closes the stream, then
\* the pending return or exception takes effect.
FinallyClose ==
    /\ pc = "finally_close"
    /\ \E ok \in BOOLEAN :
          LET leaving == AfterClose(ok, pending)
          IN  /\ Aclose(ok)
              /\ CASE leaving.kind = "none" ->
                        /\ pc' = "reread"
                        /\ UNCHANGED result
                   [] leaving.kind = "return" ->
                        /\ pc' = "done"
                        /\ result' = Returned(leaving.outcome)
                   [] leaving.kind = "raise" /\ leaving.exc = CancelledError ->
                        /\ pc' = "done"
                        /\ result' = Raised(CancelledError)
                   [] OTHER ->
                        /\ pc' = "done"
                        /\ result' = Returned(ErrorOutcome(leaving.exc))
    /\ UNCHANGED <<pipeline, timeout, sessions, context, session_id,
                   accumulators, pending, deadline_elapsed, stream_error>>
    /\ UNCHANGED laterVars
    /\ UNCHANGED <<reuseVars, extractVars, leaseVars>>

\* What the lookup of lines 191-195 can do: return the stored session,
\* return None, or raise.
Lookups == {"get_session", "get_session:none", "get_session:raise"}

\* A re-read that takes the stored state whatever the lookup did.
UsableAfterFailure(lookup, sess) == HasState(sess)

\* Lines 190-197 and 207-208: the backfill runs when the lookup returned a
\* session with a non-empty state; when it raised, the handler only logs.
Usable(lookup, sess) == lookup = "get_session" /\ HasState(sess)

\* Lines 189-245: the session is read again, unset accumulators are filled
\* from its state, and the success outcome is built and returned.
FinalSession ==
    /\ pc = "reread"
    /\ \E lookup \in Lookups :
          LET sess == sessions[session_id]
              use == Usable(lookup, sess)
              jl == IF use
                    THEN Backfill(job_listings, sess.state, "job_listings")
                    ELSE job_listings
              cr == IF use
                    THEN Backfill(company_research, sess.state,
                                  "company_research_report")
                    ELSE company_research
          IN  /\ Log(lookup)
              /\ job_listings' = Rebound(jl, ExtractJobListings(jl))
              /\ company_research' =
                    Rebound(cr, ExtractCompanyResearch(cr, JsonImported(jl)))
              /\ result' = Returned(SuccessOutcome(final_message,
                                                   raw_events, jl, cr))
    /\ pc' = "done"
    /\ UNCHANGED <<pipeline, timeout, sessions, context, session_id,
                   final_message, raw_events, runner_generator, pending,
                   deadline_elapsed, stream_error>>
    /\ UNCHANGED laterVars
    /\ UNCHANGED <<reuseVars, extractVars, leaseVars>>

\* The caller cancels the task while process_task is suspended in an await.
\* CancelledError is not an Exception: no except clause of process_task
\* takes it, only the finally clause of lines 181-187 runs.
Cancel ==
    /\ pc \in {"get_session", "create_session", "create_fallback",
               "consume", "timeout_close", "finally_close", "reread"}
    /\ pending # PendingRaise(CancelledError)
    /\ IF pc \in {"consume", "timeout_close"}
       THEN /\ pending' = PendingRaise(CancelledError)
            /\ pc' = "finally_close"
            /\ runner_generator' =
                  IF pc = "consume" THEN "finished" ELSE "closed"
            /\ trace' = IF pc = "consume" THEN trace
                        ELSE Append(trace, "aclose:cancelled")
            /\ UNCHANGED result
       ELSE /\ result' = Raised(CancelledError)
            /\ pc' = "done"
            /\ runner_generator' =
                  IF pc = "finally_close" THEN "closed" ELSE runner_generator
            /\ trace' = IF pc = "finally_close"
                        THEN Append(trace, "aclose:cancelled") ELSE trace
            /\ UNCHANGED pending
    /\ UNCHANGED <<pipeline, timeout, sessions, context, session_id,
                   accumulators, deadline_elapsed, stream_error>>
    /\ UNCHANGED laterVars
    /\ UNCHANGED <<reuseVars, extractVars, leaseVars>>

Next ==
    \/ Validate
    \/ GetSession
    \/ CreateSession
    \/ CreateFallback
    \/ RunAsync
    \/ ConsumeEvent
    \/ PipelineWrite
    \/ StreamEnd
    \/ StreamRaise
    \/ DeadlineExpire
    \/ TimeoutClose
    \/ FinallyClose
    \/ FinalSession
    \/ Cancel

Spec == Init /\ [][Next]_vars


(***************************************************************************)
(* The stream phase on its own: process_task from line 105 on, entered    *)
(* with a resolved session, for a pipeline that can emit every event.     *)
(***************************************************************************)
InitStream ==
    /\ pipeline = [events |-> Events, limit |-> MaxStreamEvents]
    /\ timeout = 2
    /\ sessions \in {[id \in SessionIds |->
                        IF id = GivenSessionId THEN Session(st)
                        ELSE NoSession] : st \in StoredStates}
    /\ context = "user_id" :> "u1"
    /\ session_id = GivenSessionId
    /\ pc = "run_async"
    /\ job_listings = None
    /\ company_research = None
    /\ final_message = InitialMessage
    /\ raw_events = <<>>
    /\ runner_generator = "None"
    /\ pending = NoPending
    /\ result = NoResult
    /\ trace = <<"get_session">>
    /\ deadline_elapsed = FALSE
    /\ stream_error = NoExc
    /\ FirstCall
    /\ ExtractorIdle
    /\ LeasesIdle
    /\ LaterIdle

NextStream ==
    \/ RunAsync
    \/ ConsumeEvent
    \/ PipelineWrite
    \/ StreamEnd
    \/ StreamRaise
    \/ DeadlineExpire
    \/ TimeoutClose
    \/ FinallyClose
    \/ FinalSession

SpecStream == InitStream /\ [][NextStream]_vars


(***************************************************************************)
(* Calls in sequence on one TaskManager: the session store outlives a call *)
(* (self.session_service, lines 36 and 74-103), everything else is local   *)
(* to a call.  The calls share the user id and the session id; the         *)
(* pipeline emits one partial update.                                      *)
(***************************************************************************)
ReuseEvents == {Event(M1, Absent, FALSE, "none", "")}

CreateCalls(t) ==
    Cardinality({i \in 1..Len(t) :
                    t[i] \in {"create_session", "create_session:raise"}})

InitReuse ==
    /\ pipeline = [events |-> ReuseEvents, limit |-> 1]
    /\ timeout = 1
    /\ sessions = [id \in SessionIds |-> NoSession]
    /\ context = "user_id" :> "u1"
    /\ session_id = GivenSessionId
    /\ pc = "start"
    /\ job_listings = None
    /\ company_research = None
    /\ final_message = InitialMessage
    /\ raw_events = <<>>
    /\ runner_generator = "None"
    /\ pending = NoPending
    /\ result = NoResult
    /\ trace = <<>>
    /\ deadline_elapsed = FALSE
    /\ stream_error = NoExc
    /\ FirstCall
    /\ ExtractorIdle
    /\ LeasesIdle
    /\ LaterIdle

\* process_task is entered again with the same context and session id once
\* the call before it has returned or raised.
NextCall ==
    /\ pc = "done"
    /\ calls < MaxCalls
    /\ calls' = calls + 1
    /\ earlier' = [creates |-> earlier.creates + CreateCalls(trace),
                   session |-> sessions[session_id]]
    /\ pc' = "start"
    /\ job_listings' = None
    /\ company_research' = None
    /\ final_message' = InitialMessage
    /\ raw_events' = <<>>
    /\ runner_generator' = "None"
    /\ pending' = NoPending
    /\ result' = NoResult
    /\ trace' = <<>>
    /\ deadline_elapsed' = FALSE
    /\ stream_error' = NoExc
    /\ UNCHANGED <<pipeline, timeout, sessions, context, session_id>>
    /\ UNCHANGED laterVars
    /\ UNCHANGED <<extractVars, leaseVars>>

NextReuse ==
    \/ Validate
    \/ GetSession
    \/ CreateSession
    \/ CreateFallback
    \/ RunAsync
    \/ ConsumeEvent
    \/ PipelineWrite
    \/ StreamEnd
    \/ StreamRaise
    \/ DeadlineExpire
    \/ TimeoutClose
    \/ FinallyClose
    \/ FinalSession
    \/ NextCall

SpecReuse == InitReuse /\ [][NextReuse]_vars


(***************************************************************************)
(* Resource leases: create_coordinator_agent (coordinator/agent.py) builds *)
(* the three sub-agents in AgentOrder.  Each create_agent constructs a     *)
(* toolset (the lease), pushes its cleanup on a stack of its own and       *)
(* constructs the agent; the coordinator enters that stack into its own    *)
(* AsyncExitStack, which is the composite handle that main exits.          *)
(***************************************************************************)
Built(at, next) == [pc |-> at, next |-> next]
CloseResults == {"ok", "raise", "cancelled"}
Release(lease, res) == [lease |-> lease, result |-> res]

\* The callbacks, the first to be released first.
FirstCallback(stack) == 1

\* AsyncExitStack.__aexit__ pops its callbacks from the end.
NextCallback(stack) == Len(stack)

Remove(stack, i) == SubSeq(stack, 1, i - 1) \o SubSeq(stack, i + 1, Len(stack))

InitLease ==
    /\ TaskIdle
    /\ FirstCall
    /\ ExtractorIdle
    /\ LeasesIdle
    /\ LaterIdle

\* One "x, stack = await create_agent(); await
\* exit_stack.enter_async_context(stack)": the toolset constructor raises,
\* the Agent constructor raises once the toolset exists, or the agent is
\* built and its stack entered.  Nothing in create_coordinator_agent or in
\* create_agent handles an exception.
CreateAgent ==
    /\ build.pc = "create"
    /\ LET a == AgentOrder[build.next]
       IN  \/ /\ build' = Built("raised", build.next)
              /\ UNCHANGED <<leases, exit_stack>>
           \/ /\ leases' = [leases EXCEPT ![a] = "held"]
              /\ build' = Built("raised", build.next)
              /\ UNCHANGED exit_stack
           \/ /\ leases' = [leases EXCEPT ![a] = "held"]
              /\ exit_stack' = Append(exit_stack, a)
              /\ build' = IF build.next = Len(AgentOrder)
                          THEN Built("coordinator", build.next + 1)
                          ELSE Built("create", build.next + 1)
    /\ UNCHANGED laterVars
    /\ UNCHANGED <<releases, teardown, taskVars, reuseVars, extractVars>>

\* Lines 31-42: the coordinator Agent is constructed and returned with the
\* handle, or its constructor raises.
CreateCoordinator ==
    /\ build.pc = "coordinator"
    /\ \/ build' = Built("returned", build.next)
       \/ build' = Built("raised", build.next)
    /\ UNCHANGED laterVars
    /\ UNCHANGED <<exit_stack, leases, releases, teardown, taskVars,
                   reuseVars, extractVars>>

\* The body of "async with exit_stack" in main ends, normally or not.
ExitHandle ==
    /\ build.pc = "returned"
    /\ teardown.state = "none"
    /\ \E failed \in BOOLEAN :
          teardown' = [state |-> "exiting", body_failed |-> failed,
                       failure |-> "none"]
    /\ UNCHANGED laterVars
    /\ UNCHANGED <<build, exit_stack, leases, releases, taskVars, reuseVars,
                   extractVars>>

\* __aexit__ runs one callback: the cleanup of one sub-agent awaits
\* toolset.close(), which returns, raises or is cancelled; __aexit__ keeps
\* the exception and goes on.
ReleaseNext ==
    /\ teardown.state = "exiting"
    /\ exit_stack # <<>>
    /\ LET i == NextCallback(exit_stack)
           a == exit_stack[i]
       IN  \E res \in CloseResults :
              /\ releases' = Append(releases, Release(a, res))
              /\ leases' = [leases EXCEPT ![a] = IF res = "ok" THEN "released"
                                                 ELSE "close_failed"]
              /\ exit_stack' = Remove(exit_stack, i)
              /\ teardown' = [teardown EXCEPT
                                !.failure = IF res = "ok" THEN @ ELSE res]
    /\ UNCHANGED laterVars
    /\ UNCHANGED <<build, taskVars, reuseVars, extractVars>>

\* __aexit__ ends: it raises the last exception a callback raised, if any.
FinishTeardown ==
    /\ teardown.state = "exiting"
    /\ exit_stack = <<>>
    /\ teardown' = [teardown EXCEPT
                      !.state = IF teardown.failure = "none"
                                THEN "returned" ELSE "raised"]
    /\ UNCHANGED laterVars
    /\ UNCHANGED <<build, exit_stack, leases, releases, taskVars, reuseVars,
                   extractVars>>

NextLease ==
    \/ CreateAgent
    \/ CreateCoordinator
    \/ ExitHandle
    \/ ReleaseNext
    \/ FinishTeardown

SpecLease == InitLease /\ [][NextLease]_vars


(***************************************************************************)
(* main (coordinator/__main__.py), one action per stretch of code between  *)
(* two awaits, together with the tasks it starts: the agent initialisation *)
(* (CreateAgent, CreateCoordinator), the server task and the requests the  *)
(* server handles.  create_coordinator_agent awaits nothing that yields to *)
(* the event loop, so a positive startup deadline (line 346) cannot expire *)
(* before the startup task is done; with --startup-timeout 0 or less       *)
(* wait_for cancels the startup task before its first step.                *)
(***************************************************************************)
ServerDone == {"finished", "failed", "cancelled"}
ServerLive == {"created", "serving"}

\* task.cancel() on the server task
CancelTask(t) == IF t \in ServerLive THEN "cancelling" ELSE t

\* HealthChecker.update_health(status)
UpdateHealth(status) == health' = Health(status)

\* Except clauses that keep every exception from leaving main.
ExceptSwallows(kind) ==
    /\ UpdateHealth(IF kind = "cancel" THEN "cancelled" ELSE "failed")
    /\ main_exc' = "none"
    /\ mpc' = "finally"

\* The except clauses of lines 424-430, entered with an exception of the
\* given kind, then the finally clause.
Except(kind) ==
    /\ UpdateHealth(IF kind = "cancel" THEN "cancelled" ELSE "failed")
    /\ main_exc' = IF kind = "cancel" THEN "none" ELSE kind
    /\ mpc' = "finally"

\* An exception or the end of the body leaves "async with exit_stack".
EnterTeardown(kind) ==
    /\ mpc' = "teardown"
    /\ main_exc' = kind
    /\ teardown' = [state |-> "exiting", body_failed |-> kind # "none",
                    failure |-> "none"]

InitMain ==
    /\ RestIdle
    /\ TaskIdle
    /\ FirstCall
    /\ ExtractorIdle
    /\ LeasesIdle
    /\ PipeIdle
    /\ ConcIdle
    /\ ApprovalIdle
    /\ mpc = "start"
    /\ env_valid = TRUE
    /\ health = Health("starting")
    /\ health_runner = "none"
    /\ deps = NoProbe
    /\ shutdown_event = FALSE
    /\ should_exit = FALSE
    /\ server_task = "none"
    /\ inflight = 0
    /\ main_exc = "none"
    /\ main_result = "none"
    /\ main_cancelled = FALSE

\* Lines 301-329: update_health('starting'), then validate_environment,
\* which reports 'degraded' when it finds issues.
Start ==
    /\ mpc = "start"
    /\ \E valid \in BOOLEAN :
          /\ env_valid' = valid
          /\ UpdateHealth(IF valid THEN "starting" ELSE "degraded")
    /\ mpc' = "health_server"
    /\ UNCHANGED <<health_runner, deps, shutdown_event, should_exit,
                   server_task, inflight, main_exc, main_result,
                   main_cancelled>>
    /\ UNCHANGED <<taskVars, reuseVars, extractVars, leaseVars, pipeVars,
                   concVars, approvalVars, restVars>>

\* Lines 331-333: the health server starts or create_health_server raises.
CreateHealthServer ==
    /\ mpc = "health_server"
    /\ \/ /\ health_runner' = "up"
          /\ mpc' = "deps"
          /\ UNCHANGED <<health, main_exc>>
       \/ /\ Except("error")
          /\ UNCHANGED health_runner
    /\ UNCHANGED <<env_valid, deps, shutdown_event, should_exit, server_task,
                   inflight, main_result, main_cancelled>>
    /\ UNCHANGED <<taskVars, reuseVars, extractVars, leaseVars, pipeVars,
                   concVars, approvalVars, restVars>>

\* range(30): one more probe is made.
ProbeOnceMore(n) == n <= DependencyAttempts

\* for attempt in range(30)
ProbeAgain(n) == n < DependencyAttempts

\* Lines 206-218 and 336-346: one probe of wait_for_dependencies.  The
\* dependency answers 200 and the function returns True, or the probe fails;
\* after the last probe it returns False.  main drops the result, reports
\* 'initializing' and awaits the startup task.
Probe ==
    /\ mpc = "deps"
    /\ \/ /\ ProbeAgain(deps.probes)
          /\ \E ok \in BOOLEAN :
                deps' = [probes |-> deps.probes + 1, ok |-> ok, done |-> ok]
       \/ /\ ~ProbeAgain(deps.probes)
          /\ deps' = [deps EXCEPT !.done = TRUE]
    /\ IF deps'.done
       THEN /\ UpdateHealth("initializing")
            /\ mpc' = "agent_init"
       ELSE UNCHANGED <<health, mpc>>
    /\ UNCHANGED <<env_valid, health_runner, shutdown_event, should_exit,
                   server_task, inflight, main_exc, main_result,
                   main_cancelled>>
    /\ UNCHANGED <<taskVars, reuseVars, extractVars, leaseVars, pipeVars,
                   concVars, approvalVars, restVars>>

\* The startup task: create_coordinator_agent, step by step.
StartupTask ==
    /\ mpc = "agent_init"
    /\ \/ CreateAgent
       \/ CreateCoordinator

\* Lines 346-353: the startup task raised; wait_for passes the exception on.
AgentFailed ==
    /\ mpc = "agent_init"
    /\ build.pc = "raised"
    /\ Except("error")
    /\ UNCHANGED <<env_valid, health_runner, deps, shutdown_event,
                   should_exit, server_task, inflight, main_result,
                   main_cancelled>>
    /\ UNCHANGED <<taskVars, reuseVars, extractVars, leaseVars, pipeVars,
                   concVars, approvalVars, restVars>>

\* Lines 346-353 and 427-430 when the startup timeout is not positive:
\* wait_for cancels the startup task, which has not run yet, and raises
\* TimeoutError; main reports 'failed' and raises RuntimeError, which the
\* except clause of line 427 reports again and re-raises.
StartupTimeout ==
    /\ mpc = "agent_init"
    /\ build = NotBuilt
    /\ build' = Built("cancelled", build.next)
    /\ Except("error")
    /\ UNCHANGED <<env_valid, health_runner, deps, shutdown_event,
                   should_exit, server_task, inflight, main_result,
                   main_cancelled>>
    /\ UNCHANGED <<exit_stack, leases, releases, teardown>>
    /\ UNCHANGED <<taskVars, reuseVars, extractVars, pipeVars, concVars,
                   approvalVars, restVars>>

\* Lines 346-409: the startup task returned the agent and the handle; main
\* enters the handle, constructs the TaskManager and the app, starts the
\* server task and reports 'healthy'.  The constructors (or int() of PORT)
\* may raise, which leaves the handle.
AgentReady ==
    /\ mpc = "agent_init"
    /\ build.pc = "returned"
    /\ \/ /\ server_task' = "created"
          /\ UpdateHealth("healthy")
          /\ mpc' = "waiting"
          /\ UNCHANGED <<main_exc, teardown>>
       \/ /\ EnterTeardown("error")
          /\ UNCHANGED <<server_task, health>>
    /\ UNCHANGED <<env_valid, health_runner, deps, shutdown_event,
                   should_exit, inflight, main_result, main_cancelled>>
    /\ UNCHANGED <<build, exit_stack, leases, releases>>
    /\ UNCHANGED <<taskVars, reuseVars, extractVars, pipeVars, concVars,
                   approvalVars, restVars>>

\* signal_handler, lines 315-317
Signal ==
    /\ mpc \notin {"start", "exited"}
    /\ ~shutdown_event
    /\ shutdown_event' = TRUE
    /\ UNCHANGED <<mpc, env_valid, health, health_runner, deps, should_exit,
                   server_task, inflight, main_exc, main_result,
                   main_cancelled>>
    /\ UNCHANGED <<taskVars, reuseVars, extractVars, leaseVars, pipeVars,
                   concVars, approvalVars, restVars>>

\* The main task is cancelled at one of its awaits (where no signal handler
\* can be installed, lines 323-325, the interrupt cancels it): outside the
\* handle the except clause of line 424 runs, inside it the handle is left.
CancelMain ==
    /\ \/ /\ mpc = "deps"
          /\ Except("cancel")
          /\ UNCHANGED teardown
       \/ /\ mpc \in {"waiting", "draining"}
          /\ EnterTeardown("cancel")
          /\ UNCHANGED health
    /\ main_cancelled' = TRUE
    /\ UNCHANGED <<env_valid, health_runner, deps, shutdown_event,
                   should_exit, server_task, inflight, main_result>>
    /\ UNCHANGED <<build, exit_stack, leases, releases>>
    /\ UNCHANGED <<taskVars, reuseVars, extractVars, pipeVars, concVars,
                   approvalVars, restVars>>

\* The server task gets to run server.serve().
ServerStart ==
    /\ server_task = "created"
    /\ server_task' = "serving"
    /\ UNCHANGED <<mpc, env_valid, health, health_runner, deps,
                   shutdown_event, should_exit, inflight, main_exc,
                   main_result, main_cancelled>>
    /\ UNCHANGED <<taskVars, reuseVars, extractVars, leaseVars, pipeVars,
                   concVars, approvalVars, restVars>>

\* The server accepts a request; it is handled in a task of its own.
Request ==
    /\ server_task = "serving"
    /\ ~should_exit
    /\ inflight < MaxInflight
    /\ inflight' = inflight + 1
    /\ UNCHANGED <<mpc, env_valid, health, health_runner, deps,
                   shutdown_event, should_exit, server_task, main_exc,
                   main_result, main_cancelled>>
    /\ UNCHANGED <<taskVars, reuseVars, extractVars, leaseVars, pipeVars,
                   concVars, approvalVars, restVars>>

\* A request is answered.
Respond ==
    /\ mpc # "exited"
    /\ inflight > 0
    /\ inflight' = inflight - 1
    /\ UNCHANGED <<mpc, env_valid, health, health_runner, deps,
                   shutdown_event, should_exit, server_task, main_exc,
                   main_result, main_cancelled>>
    /\ UNCHANGED <<taskVars, reuseVars, extractVars, leaseVars, pipeVars,
                   concVars, approvalVars, restVars>>

\* server.serve() returns or raises on its own.
ServerEnds ==
    /\ server_task \in ServerLive
    /\ \E end \in {"finished", "failed"} : server_task' = end
    /\ UNCHANGED <<mpc, env_valid, health, health_runner, deps,
                   shutdown_event, should_exit, inflight, main_exc,
                   main_result, main_cancelled>>
    /\ UNCHANGED <<taskVars, reuseVars, extractVars, leaseVars, pipeVars,
                   concVars, approvalVars, restVars>>

\* CancelledError is thrown into server.serve(): the task ends, the
\* requests being handled are tasks of their own.
ServerCancelled ==
    /\ server_task = "cancelling"
    /\ server_task' = "cancelled"
    /\ UNCHANGED <<mpc, env_valid, health, health_runner, deps,
                   shutdown_event, should_exit, inflight, main_exc,
                   main_result, main_cancelled>>
    /\ UNCHANGED <<taskVars, reuseVars, extractVars, leaseVars, pipeVars,
                   concVars, approvalVars, restVars>>

\* Lines 409-422: asyncio.wait returns; the tasks still pending are
\* cancelled; with the event set main reports 'shutting_down', sets
\* should_exit and awaits the server task, otherwise the body ends.
Wake ==
    /\ mpc = "waiting"
    /\ shutdown_event \/ server_task \in ServerDone
    /\ server_task' = CancelTask(server_task)
    /\ IF shutdown_event
       THEN /\ UpdateHealth("shutting_down")
            /\ should_exit' = TRUE
            /\ mpc' = "draining"
            /\ UNCHANGED <<main_exc, teardown>>
       ELSE /\ EnterTeardown("none")
            /\ UNCHANGED <<health, should_exit>>
    /\ UNCHANGED <<env_valid, health_runner, deps, shutdown_event, inflight,
                   main_result, main_cancelled>>
    /\ UNCHANGED <<build, exit_stack, leases, releases>>
    /\ UNCHANGED <<taskVars, reuseVars, extractVars, pipeVars, concVars,
                   approvalVars, restVars>>

\* Line 422: "await server_task" returns or raises what the task ended with.
Drained ==
    /\ mpc = "draining"
    /\ server_task \in ServerDone
    /\ EnterTeardown(CASE server_task = "finished" -> "none"
                       [] server_task = "failed" -> "error"
                       [] server_task = "cancelled" -> "cancel")
    /\ UNCHANGED <<env_valid, health, health_runner, deps, shutdown_event,
                   should_exit, server_task, inflight, main_result,
                   main_cancelled>>
    /\ UNCHANGED <<build, exit_stack, leases, releases>>
    /\ UNCHANGED <<taskVars, reuseVars, extractVars, pipeVars, concVars,
                   approvalVars, restVars>>

\* What leaves "async with exit_stack": the exception of a close if one
\* failed, else the exception of the body.
Leaving ==
    CASE teardown.failure = "raise" -> "error"
      [] teardown.failure = "cancelled" -> "cancel"
      [] OTHER -> main_exc

\* The handle has been left: the except clause for what leaves it, then the
\* finally clause.
AfterTeardown ==
    /\ mpc = "teardown"
    /\ teardown.state \in {"returned", "raised"}
    /\ IF Leaving = "none"
       THEN /\ mpc' = "finally"
            /\ UNCHANGED <<health, main_exc>>
       ELSE Except(Leaving)
    /\ UNCHANGED <<env_valid, health_runner, deps, shutdown_event,
                   should_exit, server_task, inflight, main_result,
                   main_cancelled>>
    /\ UNCHANGED <<taskVars, reuseVars, extractVars, leaseVars, pipeVars,
                   concVars, approvalVars, restVars>>

\* Lines 431-436, TaskTracker.cleanup: the tasks still running are
\* cancelled and awaited.
CleanupTasks ==
    /\ mpc = "finally"
    /\ server_task' = CancelTask(server_task)
    /\ mpc' = "gather"
    /\ UNCHANGED <<env_valid, health, health_runner, deps, shutdown_event,
                   should_exit, inflight, main_exc, main_result,
                   main_cancelled>>
    /\ UNCHANGED <<taskVars, reuseVars, extractVars, leaseVars, pipeVars,
                   concVars, approvalVars, restVars>>

\* Lines 438-442: the health server is cleaned up and main returns, or
\* raises the exception the except clause of line 427 re-raised.
Finish ==
    /\ mpc = "gather"
    /\ server_task \in ServerDone \cup {"none"}
    /\ health_runner' = IF health_runner = "up" THEN "cleaned"
                        ELSE health_runner
    /\ main_result' = IF main_exc = "error" THEN "raised" ELSE "returned"
    /\ mpc' = "exited"
    /\ UNCHANGED <<env_valid, health, deps, shutdown_event, should_exit,
                   server_task, inflight, main_exc, main_cancelled>>
    /\ UNCHANGED <<taskVars, reuseVars, extractVars, leaseVars, pipeVars,
                   concVars, approvalVars, restVars>>

NextMain ==
    \/ Start
    \/ CreateHealthServer
    \/ Probe
    \/ StartupTask
    \/ StartupTimeout
    \/ AgentFailed
    \/ AgentReady
    \/ Signal
    \/ CancelMain
    \/ ServerStart
    \/ Request
    \/ Respond
    \/ ServerEnds
    \/ ServerCancelled
    \/ Wake
    \/ Drained
    \/ ReleaseNext
    \/ FinishTeardown
    \/ AfterTeardown
    \/ CleanupTasks
    \/ Finish

SpecMain == InitMain /\ [][NextMain]_vars

\* The event loop runs a task that is ready: the steps of main's startup
\* and of the startup task are taken when they can be.
SpecMainLive ==
    /\ SpecMain
    /\ WF_vars(Start)
    /\ WF_vars(CreateHealthServer)
    /\ WF_vars(Probe)
    /\ WF_vars(StartupTask)
    /\ WF_vars(AgentFailed)
    /\ WF_vars(AgentReady)


(***************************************************************************)
(* The pipeline within one task.  The coordinator is an Agent whose        *)
(* sub_agents are the three sub-agents (coordinator/agent.py, lines        *)
(* 31-41): the model behind it decides, turn by turn, which sub-agent it   *)
(* transfers to.  A sub-agent with an output_key writes its answer to the  *)
(* session state under that key.                                           *)
(***************************************************************************)
SubAgents == <<"job_listing", "company_research", "job_coach">>
SubAgentSet == {SubAgents[i] : i \in 1..Len(SubAgents)}

OutputKeys(a) ==
    CASE a = "job_listing" -> {"job_listings"}
      [] a = "company_research" -> {"company_research_report"}
      [] OTHER -> {}

Run(a, saw) == [agent |-> a, saw |-> saw]

InitPipeline ==
    /\ RestIdle
    /\ TaskIdle
    /\ FirstCall
    /\ ExtractorIdle
    /\ LeasesIdle
    /\ MainIdle
    /\ ConcIdle
    /\ ApprovalIdle
    /\ running = "none"
    /\ executed = <<>>
    /\ agent_state = {}

\* The coordinator transfers to the sub-agent its model names.
Transfer ==
    /\ running = "none"
    /\ Len(executed) < MaxTransfers
    /\ \E a \in SubAgentSet : running' = a
    /\ UNCHANGED <<executed, agent_state>>
    /\ UNCHANGED <<taskVars, reuseVars, extractVars, leaseVars, mainVars,
                   concVars, approvalVars, restVars>>

\* The sub-agent answers: it has worked on the session state it found and
\* its answer is stored under its output_key.
AgentFinish ==
    /\ running # "none"
    /\ executed' = Append(executed, Run(running, agent_state))
    /\ agent_state' = agent_state \cup OutputKeys(running)
    /\ running' = "none"
    /\ UNCHANGED <<taskVars, reuseVars, extractVars, leaseVars, mainVars,
                   concVars, approvalVars, restVars>>

NextPipeline ==
    \/ Transfer
    \/ AgentFinish

SpecPipeline == InitPipeline /\ [][NextPipeline]_vars


(***************************************************************************)
(* The approval tool (job_listing/approval.py) called by the pipeline      *)
(* while process_task consumes its stream.  The call of a long-running     *)
(* tool reaches process_task as a terminal event of the model with no      *)
(* text.                                                                   *)
(***************************************************************************)
ListingInputs == SeqsUpTo({"L1", "L2"}, MaxListings)
ToolContexts == {"ctx"}

\* The tool answering with a status outside the three it documents.
external_approval_tool_failed(listing_dicts, tool_context) ==
    [status |-> "error", ticket_id |-> "approval-ticket-1234"]

external_approval_tool(listing_dicts, tool_context) ==
    [status |-> "pending", ticket_id |-> "approval-ticket-1234"]

ApprovalEvents ==
    {Event(Absent, Absent, TRUE, "model", ""),
     Event(Absent, Absent, TRUE, "model", "done")}

InitApproval ==
    /\ RestIdle
    /\ pipeline = [events |-> ApprovalEvents, limit |-> 2]
    /\ timeout = 1
    /\ sessions = [id \in SessionIds |->
                      IF id = GivenSessionId THEN Session(EmptyState)
                      ELSE NoSession]
    /\ context = "user_id" :> "u1"
    /\ session_id = GivenSessionId
    /\ pc = "run_async"
    /\ job_listings = None
    /\ company_research = None
    /\ final_message = InitialMessage
    /\ raw_events = <<>>
    /\ runner_generator = "None"
    /\ pending = NoPending
    /\ result = NoResult
    /\ trace = <<"get_session">>
    /\ deadline_elapsed = FALSE
    /\ stream_error = NoExc
    /\ FirstCall
    /\ ExtractorIdle
    /\ LeasesIdle
    /\ MainIdle
    /\ PipeIdle
    /\ ConcIdle
    /\ listings \in ListingInputs
    /\ approval = NoApproval

\* The pipeline calls the tool once while its stream is being consumed.
ApprovalTool ==
    /\ pc = "consume"
    /\ approval = NoApproval
    /\ \E ctx \in ToolContexts :
          approval' = external_approval_tool(listings, ctx)
    /\ UNCHANGED listings
    /\ UNCHANGED <<taskVars, reuseVars, extractVars, leaseVars, mainVars,
                   pipeVars, concVars, restVars>>

NextApproval ==
    \/ RunAsync
    \/ ConsumeEvent
    \/ PipelineWrite
    \/ StreamEnd
    \/ StreamRaise
    \/ DeadlineExpire
    \/ TimeoutClose
    \/ FinallyClose
    \/ FinalSession
    \/ ApprovalTool

SpecApproval == InitApproval /\ [][NextApproval]_vars


(***************************************************************************)
(* Two process_task calls running concurrently on one TaskManager.  They   *)
(* share self.session_service; the accumulators, the stream and the        *)
(* outcome are locals of each call.  A call is a record; its pc is the     *)
(* await it is suspended in.  The store either replaces a session that is  *)
(* created again or refuses the creation (strict), one or the other for    *)
(* the whole run.                                                          *)
(***************************************************************************)
Calls == {"A", "B"}
OtherSessionId == "s2"
TaskKeys == {GivenSessionId, OtherSessionId}

\* What the pipeline of a call emits and writes.
TaskValue(c) == IF c = "A" THEN M1 ELSE M2
TaskEvents(c) ==
    {Event(TaskValue(c), Absent, FALSE, "none", ""),
     Event(Absent, Absent, TRUE, "model", IF c = "A" THEN "done" ELSE "hello")}
TaskWrites(c) == IF c = "A" THEN S1 ELSE Dict("S2")

NewTask(key) ==
    [key |-> key, pc |-> "get_session", absent |-> FALSE,
     job_listings |-> None, company_research |-> None,
     final_message |-> InitialMessage, raw_events |-> <<>>,
     wrote |-> EmptyState, reread |-> FALSE, result |-> NoResult]

\* Every call reading and writing the session of one key.
SessionKeyShared(t) == GivenSessionId

\* The key of the session a call works on: its own session_id.
SessionKey(t) == t.key

Stored(t) == session_service.sessions[SessionKey(t)]
Put(t, sess) ==
    session_service' =
        [session_service EXCEPT !.sessions[SessionKey(t)] = sess]

InitConcurrent ==
    /\ RestIdle
    /\ TaskIdle
    /\ FirstCall
    /\ ExtractorIdle
    /\ LeasesIdle
    /\ MainIdle
    /\ PipeIdle
    /\ ApprovalIdle
    /\ \E key \in TaskKeys :
          tasks = [c \in Calls |->
                      NewTask(IF c = "A" THEN GivenSessionId ELSE key)]
    /\ \E strict \in BOOLEAN :
          session_service = [sessions |-> [k \in TaskKeys |-> NoSession],
                             strict |-> strict]

ConcFrame ==
    UNCHANGED <<taskVars, reuseVars, extractVars, leaseVars, mainVars,
                pipeVars, approvalVars, restVars>>

\* Lines 75-91: the lookup; a call that finds no session goes on to create
\* one.
TaskGetSession(c) ==
    LET t == tasks[c]
    IN  /\ t.pc = "get_session"
        /\ tasks' = [tasks EXCEPT
                       ![c].pc = IF Stored(t).exists THEN "consume"
                                 ELSE "create_session",
                       ![c].absent = ~Stored(t).exists]
        /\ UNCHANGED session_service
        /\ ConcFrame

\* Lines 85-96: create_session inside the try.
TaskCreateSession(c) ==
    LET t == tasks[c]
    IN  /\ t.pc = "create_session"
        /\ IF Stored(t).exists /\ session_service.strict
           THEN /\ tasks' = [tasks EXCEPT ![c].pc = "create_fallback"]
                /\ UNCHANGED session_service
           ELSE /\ Put(t, Session(EmptyState))
                /\ tasks' = [tasks EXCEPT ![c].pc = "consume"]
        /\ ConcFrame

\* Lines 97-103: create_session inside the except clause.
TaskCreateFallback(c) ==
    LET t == tasks[c]
    IN  /\ t.pc = "create_fallback"
        /\ IF Stored(t).exists /\ session_service.strict
           THEN /\ \E e \in CreateExceptions :
                      tasks' = [tasks EXCEPT ![c].pc = "done",
                                             ![c].result = Raised(e)]
                /\ UNCHANGED session_service
           ELSE /\ Put(t, Session(EmptyState))
                /\ tasks' = [tasks EXCEPT ![c].pc = "consume"]
        /\ ConcFrame

\* Lines 135-152: one event of the call's own stream.
TaskConsumeEvent(c) ==
    LET t == tasks[c]
    IN  /\ t.pc = "consume"
        /\ Len(t.raw_events) < MaxTaskEvents
        /\ \E e \in TaskEvents(c) :
              tasks' = [tasks EXCEPT
                  ![c].raw_events = Append(t.raw_events, ModelDump(e)),
                  ![c].job_listings = Update(t.job_listings, e, "job_listings"),
                  ![c].company_research =
                      Update(t.company_research, e, "company_research_report"),
                  ![c].final_message = FinalMessage(t.final_message, e)]
        /\ UNCHANGED session_service
        /\ ConcFrame

\* The pipeline of the call persists a value to the session it runs on.
TaskPipelineWrite(c) ==
    LET t == tasks[c]
    IN  /\ t.pc = "consume"
        /\ Stored(t).exists
        /\ t.wrote["company_research_report"] = Absent
        /\ Put(t, [Stored(t) EXCEPT
                      !.state["company_research_report"] = TaskWrites(c)])
        /\ tasks' = [tasks EXCEPT
                       ![c].wrote["company_research_report"] = TaskWrites(c)]
        /\ ConcFrame

\* The stream ends, or raises and lines 247-253 build the error outcome.
TaskStreamEnd(c) ==
    LET t == tasks[c]
    IN  /\ t.pc = "consume"
        /\ \/ tasks' = [tasks EXCEPT ![c].pc = "reread"]
           \/ \E e \in StreamExceptions \ {Exc("TimeoutError",
                                                "upstream timed out")} :
                 tasks' = [tasks EXCEPT ![c].pc = "done",
                                        ![c].result = Returned(ErrorOutcome(e))]
        /\ UNCHANGED session_service
        /\ ConcFrame

\* Lines 189-245: the re-read of the call's session, the backfill and the
\* success outcome.
TaskFinalSession(c) ==
    LET t == tasks[c]
    IN  /\ t.pc = "reread"
        /\ \E ok \in BOOLEAN :
              LET sess == Stored(t)
                  use == ok /\ HasState(sess)
                  jl == IF use
                        THEN Backfill(t.job_listings, sess.state,
                                      "job_listings")
                        ELSE t.job_listings
                  cr == IF use
                        THEN Backfill(t.company_research, sess.state,
                                      "company_research_report")
                        ELSE t.company_research
              IN  tasks' = [tasks EXCEPT
                      ![c].pc = "done",
                      ![c].reread = ok,
                      ![c].result = Returned(SuccessOutcome(t.final_message,
                                                            t.raw_events,
                                                            jl, cr))]
        /\ UNCHANGED session_service
        /\ ConcFrame

NextConcurrent ==
    \E c \in Calls :
        \/ TaskGetSession(c)
        \/ TaskCreateSession(c)
        \/ TaskCreateFallback(c)
        \/ TaskConsumeEvent(c)
        \/ TaskPipelineWrite(c)
        \/ TaskStreamEnd(c)
        \/ TaskFinalSession(c)

SpecConcurrent == InitConcurrent /\ [][NextConcurrent]_vars


(***************************************************************************)
(* The extractors as pure functions: the two blocks of process_task that   *)
(* turn a str payload into a document, and unwrap_json_string of the       *)
(* serving layer, which cleans a payload with the same pattern.            *)
(***************************************************************************)
Tokens == {"ws", "nl", "fence", "json", "tag", "J1", "J2", "bad"}
BlankRuns == SeqsUpTo(Blank, MaxBlank)
LanguageTags == {<<>>, <<"json">>, <<"tag">>}
Bodies == JsonDocs \cup {"bad"}
ClosingLines == {<<>>, <<"nl">>}

\* blanks, a fence, an optional language tag, a newline, a body, an optional
\* newline, a fence, blanks
Fenced(pre, tag, body, mid, post) ==
    pre \o <<"fence">> \o tag \o <<"nl", body>> \o mid \o <<"fence">> \o post

FencedPayloads ==
    {Str(Fenced(pre, tag, body, mid, post)) :
        pre \in BlankRuns, tag \in LanguageTags, body \in Bodies,
        mid \in ClosingLines, post \in BlankRuns}
PlainPayloads ==
    {Str(pre \o <<body>> \o post) :
        pre \in BlankRuns, body \in Bodies, post \in BlankRuns}
ShortPayloads == {Str(t) : t \in SeqsUpTo(Tokens, MaxPayloadLen)}
Payloads == FencedPayloads \cup PlainPayloads \cup ShortPayloads

\* unwrap_json_string: None for a falsy block and for a JSONDecodeError.
UnwrapJsonString(json_block) ==
    IF ~Truthy(json_block) THEN None
    ELSE IF JsonParses(CleanJson(json_block))
         THEN JsonLoads(CleanJson(json_block))
         ELSE None

Extraction(by, value) == [by |-> by, value |-> value]

InitExtract ==
    /\ TaskIdle
    /\ FirstCall
    /\ LeasesIdle
    /\ LaterIdle
    /\ payload \in Payloads
    /\ extracted = NoExtraction

\* process_task, lines 216-227, given the payload as job_listings
ExtractJobListingsField ==
    /\ extracted = NoExtraction
    /\ extracted' = Extraction("job_listings", ExtractJobListings(payload))
    /\ UNCHANGED laterVars
    /\ UNCHANGED <<payload, taskVars, reuseVars, leaseVars>>

\* process_task, lines 229-238, given the payload as company_research after
\* a job_listings block that ran
ExtractCompanyResearchField ==
    /\ extracted = NoExtraction
    /\ extracted' =
          Extraction("company_research", ExtractCompanyResearch(payload, TRUE))
    /\ UNCHANGED laterVars
    /\ UNCHANGED <<payload, taskVars, reuseVars, leaseVars>>

Unwrap ==
    /\ extracted = NoExtraction
    /\ extracted' = Extraction("unwrap_json_string", UnwrapJsonString(payload))
    /\ UNCHANGED laterVars
    /\ UNCHANGED <<payload, taskVars, reuseVars, leaseVars>>

NextExtract ==
    \/ ExtractJobListingsField
    \/ ExtractCompanyResearchField
    \/ Unwrap

SpecExtract == InitExtract /\ [][NextExtract]_vars


(***************************************************************************)
(* The /run-job-search handler of the serving layer (a2a_server.py, lines  *)
(* 291-346) as a function of what process_task gave it.  The message of an *)
(* outcome is read as one str, a sequence of tokens; a JSON document of a  *)
(* message is an object with or without the two keys, a number, or {}.     *)
(***************************************************************************)
JL == Dict("JL")
CR == Dict("CR")
Number == [kind |-> "int", v |-> <<"5">>]
DefaultJobListings == Dict("default_job_listings")
DefaultCompanyResearch == Dict("default_company_research")

\* Validation against the pydantic models of lines 36-37 and 120-129: JL
\* fits JobListings, CR fits CompanyResearch, M1 has the keys of both, the
\* structures of create_default_response fit their model, others fit none.
Conforms(schema, x) ==
    IF schema = "JobListings" THEN x \in {JL, M1, DefaultJobListings}
    ELSE x \in {CR, M1, DefaultCompanyResearch}

\* The model instance validation builds from a conforming value.
Model(schema, x) == [schema |-> schema, of |-> x]

Response(jl, cr) ==
    [kind |-> "response", job_listings |-> jl, company_research |-> cr]
Raises(cls) == [kind |-> "raise", cls |-> cls]

\* JobSearchResponse(job_listings=..., company_research=...)
JobSearchResponse(jl, cr) ==
    IF Conforms("JobListings", jl) /\ Conforms("CompanyResearch", cr)
    THEN Response(Model("JobListings", jl), Model("CompanyResearch", cr))
    ELSE Raises("ValidationError")

\* JobSearchResponse(**create_default_response())
DefaultResponse == JobSearchResponse(DefaultJobListings, DefaultCompanyResearch)

\* The JSON documents a message can hold and what json.loads makes of them.
MessageDocs == {"J1", "J2", "J3", "J4", "J5", "J6", "J7"}
Loaded(doc) ==
    IF doc = "J6" THEN Number ELSE IF doc = "J7" THEN EmptyDict ELSE Dict(doc)
Items(doc) ==
    CASE doc = "J1" -> ("job_listings" :> JL) @@ ("company_research" :> CR)
      [] doc = "J2" -> ("job_listings" :> JL)
      [] doc = "J3" -> ("company_research" :> CR)
      [] doc = "J4" -> ("job_listings" :> M2) @@ ("company_research" :> CR)
      [] OTHER -> <<>>

\* unwrap_json_string applied to a message: None for a falsy block and for
\* a JSONDecodeError.
UnwrapMessage(json_block) ==
    LET cleaned == Strip(CleanJson(Str(json_block)))
    IN  IF json_block = <<>> THEN None
        ELSE IF Len(cleaned) = 1 /\ cleaned[1] \in MessageDocs
             THEN Loaded(cleaned[1])
             ELSE None

\* Lines 324-340: the values of a JSON message laid over the default; the
\* membership test raises TypeError on a document that is no container.
FromMessage(message) ==
    LET message_parsed == UnwrapMessage(message)
    IN  IF ~Truthy(message_parsed) THEN DefaultResponse
        ELSE IF message_parsed.kind # "dict" THEN Raises("TypeError")
        ELSE LET items == Items(message_parsed.v[1])
                 jl == IF "job_listings" \in DOMAIN items
                       THEN items["job_listings"] ELSE DefaultJobListings
                 cr == IF "company_research" \in DOMAIN items
                       THEN items["company_research"]
                       ELSE DefaultCompanyResearch
             IN  JobSearchResponse(jl, cr)

\* Lines 299-340: the body of the try.
Attempt(res) ==
    IF res.kind = "raise" THEN Raises(res.exc.cls)
    ELSE LET data == res.outcome.data
         IN  IF res.outcome.status # "success" THEN DefaultResponse
             ELSE IF {"job_listings", "company_research"} \subseteq DOMAIN data
                  THEN JobSearchResponse(data["job_listings"],
                                         data["company_research"])
             ELSE IF res.outcome.message # <<>>
                  THEN FromMessage(res.outcome.message)
             ELSE DefaultResponse

\* A handler without the except clause.
RecoverNothing(attempt) == attempt

\* Lines 342-346: except Exception returns the default structure;
\* CancelledError is not an Exception and leaves the handler.
Recover(attempt) ==
    IF attempt.kind = "raise" /\ attempt.cls # "CancelledError"
    THEN DefaultResponse
    ELSE attempt

run_job_search(res) == Recover(Attempt(res))

\* What process_task can give the handler: a success outcome with each
\* combination of the two fields and a message that is a JSON document,
\* fenced or not, or plain text; the error outcomes; an exception.
ServerMessages ==
    {<<d>> : d \in MessageDocs \cup {"bad", "done"}}
    \cup {<<"fence", "json", "nl", d, "nl", "fence">> :
             d \in MessageDocs \cup {"bad"}}
TaskResults ==
    {Returned(Outcome(m, "success", ResponseData(<<>>, jl, cr))) :
        m \in ServerMessages, jl \in {None, JL, M1, M2},
        cr \in {None, CR, M1, M2}}
    \cup {Returned(ErrorOutcome(e)) : e \in StreamExceptions}
    \cup {Returned(TimeoutOutcome(DEFAULT_TIMEOUT)),
          Returned(ValidationOutcome)}
    \cup {Raised(e) : e \in CreateExceptions \cup {CancelledError}}

InitServer ==
    /\ TaskIdle
    /\ FirstCall
    /\ ExtractorIdle
    /\ LeasesIdle
    /\ MainIdle
    /\ PipeIdle
    /\ ConcIdle
    /\ ApprovalIdle
    /\ TrackerIdle
    /\ task_result \in TaskResults
    /\ response = NoResponse

\* Lines 291-346: one request.
RunJobSearch ==
    /\ response = NoResponse
    /\ response' = run_job_search(task_result)
    /\ UNCHANGED <<task_result, trackerVars>>
    /\ UNCHANGED <<mainVars, pipeVars, concVars, approvalVars>>
    /\ UNCHANGED <<taskVars, reuseVars, extractVars, leaseVars>>

NextServer == RunJobSearch

SpecServer == InitServer /\ [][NextServer]_vars


(***************************************************************************)
(* TaskTracker (coordinator/__main__.py, lines 249-286) with the tasks     *)
(* main gives it.  A task ends by itself or after a cancel() by main, by   *)
(* wait_for or by cleanup(); the event loop then schedules its done        *)
(* callbacks.  main adds no task once it has reached its finally clause.   *)
(***************************************************************************)
TaskDone == {"finished", "failed", "cancelled"}

InitTracker ==
    /\ TaskIdle
    /\ FirstCall
    /\ ExtractorIdle
    /\ LeasesIdle
    /\ MainIdle
    /\ PipeIdle
    /\ ConcIdle
    /\ ApprovalIdle
    /\ ServerIdle
    /\ TrackerIdle

TrackerFrame ==
    UNCHANGED <<taskVars, reuseVars, extractVars, leaseVars, mainVars,
                pipeVars, concVars, approvalVars, serverVars>>

\* add_task, lines 256-262
AddTask(t) ==
    /\ tracker_pc = "idle"
    /\ tracked[t] = "new"
    /\ tracked' = [tracked EXCEPT ![t] = "pending"]
    /\ running_tasks' = running_tasks \cup {t}
    /\ UNCHANGED <<callbacks, gathered, tracker_pc>>
    /\ TrackerFrame

\* task.cancel() by main (line 416) or by wait_for (line 346)
CancelTracked(t) ==
    /\ tracked[t] = "pending"
    /\ tracked' = [tracked EXCEPT ![t] = "cancelling"]
    /\ UNCHANGED <<running_tasks, callbacks, gathered, tracker_pc>>
    /\ TrackerFrame

\* The task returns, raises, or ends cancelled when a cancel() reached it;
\* its done callbacks are scheduled.
TaskEnds(t) ==
    /\ tracked[t] \in {"pending", "cancelling"}
    /\ \E end \in TaskDone :
          /\ end = "cancelled" => tracked[t] = "cancelling"
          /\ tracked' = [tracked EXCEPT ![t] = end]
    /\ callbacks' = callbacks \cup {t}
    /\ UNCHANGED <<running_tasks, gathered, tracker_pc>>
    /\ TrackerFrame

\* _task_done_callback, lines 264-270
TaskDoneCallback(t) ==
    /\ t \in callbacks
    /\ callbacks' = callbacks \ {t}
    /\ running_tasks' = running_tasks \ {t}
    /\ UNCHANGED <<tracked, gathered, tracker_pc>>
    /\ TrackerFrame

\* cleanup, lines 272-285, up to the await: nothing to do for an empty set,
\* else every task that is not done is cancelled and all are gathered.
CleanupBegin ==
    /\ tracker_pc = "idle"
    /\ IF running_tasks = {}
       THEN /\ tracker_pc' = "returned"
            /\ UNCHANGED <<tracked, gathered>>
       ELSE /\ tracked' = [t \in TaskNames |->
                             IF t \in running_tasks /\ tracked[t] = "pending"
                             THEN "cancelling" ELSE tracked[t]]
            /\ gathered' = running_tasks
            /\ tracker_pc' = "gather"
    /\ UNCHANGED <<running_tasks, callbacks>>
    /\ TrackerFrame

\* asyncio.gather without return_exceptions: the first exception of a task
\* is raised to the caller.
GatherRaising(ends) ==
    IF ends \subseteq {"finished"} THEN "returned" ELSE "raised"

\* asyncio.gather(..., return_exceptions=True), line 285: exceptions and
\* cancellations of the tasks are results.
Gather(ends) == "returned"

\* cleanup, lines 285-286: gather is over once every task is done; the set
\* is cleared.
CleanupEnd ==
    /\ tracker_pc = "gather"
    /\ \A t \in gathered : tracked[t] \in TaskDone
    /\ tracker_pc' = Gather({tracked[t] : t \in gathered})
    /\ running_tasks' = IF tracker_pc' = "returned" THEN {} ELSE running_tasks
    /\ UNCHANGED <<tracked, callbacks, gathered>>
    /\ TrackerFrame

NextTracker ==
    \/ \E t \in TaskNames : AddTask(t)
    \/ \E t \in TaskNames : CancelTracked(t)
    \/ \E t \in TaskNames : TaskEnds(t)
    \/ \E t \in TaskNames : TaskDoneCallback(t)
    \/ CleanupBegin
    \/ CleanupEnd

SpecTracker == InitTracker /\ [][NextTracker]_vars


(***************************************************************************)
(* Properties.                                                             *)
(***************************************************************************)
Called(call) == \E i \in 1..Len(trace) : trace[i] = call
AcloseCalls == {"aclose", "aclose:raise", "aclose:cancelled"}
NonEmptyMessage(m) == \E i \in 1..Len(m) : m[i] # ""
HasUserId == "user_id" \in DOMAIN context /\ context["user_id"] # ""
NotCancelled == result.exc.cls # "CancelledError"
Completed == pc = "done" /\ NotCancelled
ReturnedStatus(st) == result.kind = "return" /\ result.outcome.status = st
ErrorType(cls) ==
    /\ "error_type" \in DOMAIN result.outcome.data
    /\ result.outcome.data["error_type"] = cls

\* C1: every call with a non-empty user_id that is not cancelled returns an
\* outcome whose status is success or error and whose message is not empty,
\* whatever the session store and the stream do; it never raises.
C1_AlwaysReturnsOutcome ==
    (Completed /\ HasUserId) =>
        /\ result.kind = "return"
        /\ result.outcome.status \in {"success", "error"}
        /\ NonEmptyMessage(result.outcome.message)

\* C2: a call without a user_id (key missing or empty) makes no call to the
\* session store, starts no stream, and returns the ValidationError outcome.
C2_MissingUserIdRejected ==
    ~HasUserId =>
        /\ trace = <<>>
        /\ runner_generator = "None"
        /\ pc = "done" =>
              ReturnedStatus("error") /\ ErrorType("ValidationError")

C2_Witness ==
    /\ pc = "done"
    /\ "user_id" \in DOMAIN context
    /\ ~HasUserId
    /\ sessions[GivenSessionId].exists
    /\ ReturnedStatus("error")

\* C3: when the deadline expires before the stream ends, the call returns
\* the error outcome of type TimeoutError whose data.timeout is the timeout
\* the TaskManager was constructed with.
C3_DeadlineGivesTimeoutOutcome ==
    (Completed /\ deadline_elapsed) =>
        /\ ReturnedStatus("error")
        /\ ErrorType("TimeoutError")
        /\ "timeout" \in DOMAIN result.outcome.data
        /\ result.outcome.data["timeout"] = timeout

C3_Witness ==
    /\ pc = "done"
    /\ deadline_elapsed
    /\ Len(raw_events) >= 1
    /\ ReturnedStatus("error")
    /\ timeout = 1

\* C4: once run_async has returned the stream, process_task has invoked
\* aclose on it before it goes on to read the session again and before it
\* returns or raises, on every exit path; and the stream is closed by
\* these calls only.
C4_StreamClosedBeforeLeaving ==
    /\ (pc \in {"reread", "done"} /\ Called("run_async")) =>
          /\ runner_generator = "closed"
          /\ \E i, j \in 1..Len(trace) :
                i < j /\ trace[i] = "run_async" /\ trace[j] \in AcloseCalls
    /\ runner_generator = "closed" =>
          \E j \in 1..Len(trace) : trace[j] \in AcloseCalls

C4_Witness ==
    /\ pc = "done"
    /\ Called("run_async")
    /\ result = Raised(CancelledError)
    /\ Len(raw_events) >= 1

\* C5: an exception raised by the stream while it is consumed is returned
\* as an error outcome whose error_type is the class of the exception and
\* whose message contains its text, after the stream was closed.
C5_StreamExceptionReported ==
    (Completed /\ stream_error # NoExc) =>
        /\ ReturnedStatus("error")
        /\ ErrorType(stream_error.cls)
        /\ \E i \in 1..Len(result.outcome.message) :
              result.outcome.message[i] = stream_error.text
        /\ runner_generator = "closed"

\* C6: when the lookup returns no session or raises, process_task goes on
\* to create_session, and neither the failure of the lookup nor that of the
\* creation reaches the caller.
C6_SessionFailuresNeverSurface ==
    /\ (Called("get_session:raise") /\ pc \in {"run_async", "consume"}) =>
          Called("create_session")
    /\ (pc = "done" /\ result.kind = "raise") =>
          result.exc \notin SessionExceptions \cup CreateExceptions


(***************************************************************************)
(* Properties of the stream phase, read off the log of consumed events.   *)
(***************************************************************************)
Succeeded == pc = "done" /\ ReturnedStatus("success")
Data == result.outcome.data

\* The events of the log that updated a key, and the last value written.
UpdatesOf(key) == {i \in 1..Len(raw_events) : key \in DOMAIN raw_events[i]}
LastOf(S) == CHOOSE i \in S : \A j \in S : j <= i
LastUpdate(key) == raw_events[LastOf(UpdatesOf(key))][key]

\* A payload as it is meant to show in the outcome: a str that is a JSON
\* document, fenced or not, shows as that document.
Shown(v) ==
    IF v = StrFenced THEN Dict("J1")
    ELSE IF v = StrPlain THEN Dict("J2")
    ELSE v
WellFormed(v) == v \in {M1, M2, S1, EmptyDict, StrFenced, StrPlain}

\* C7: when two or more events of a run update the same key, the success
\* outcome shows under that key the value of the last of them, whatever
\* well-formed value it is (an empty one included).
C7_LastUpdateShown ==
    Succeeded =>
        /\ (Cardinality(UpdatesOf("job_listings")) >= 2
              /\ WellFormed(LastUpdate("job_listings"))) =>
               /\ "job_listings" \in DOMAIN Data
               /\ Data["job_listings"] = Shown(LastUpdate("job_listings"))
        /\ (Cardinality(UpdatesOf("company_research_report")) >= 2
              /\ WellFormed(LastUpdate("company_research_report"))) =>
               /\ "company_research" \in DOMAIN Data
               /\ Data["company_research"] =
                     Shown(LastUpdate("company_research_report"))

\* The run of the end-to-end scenario: one update of job_listings, then one
\* terminal text event of the pipeline, then the end of the stream.
IsScenario(L, T) ==
    /\ Succeeded
    /\ raw_events = <<ModelDump(Event(L, Absent, FALSE, "none", "")),
                      ModelDump(Event(Absent, Absent, TRUE, "model", T))>>

Answers ==
    {i \in 1..Len(raw_events) :
        /\ raw_events[i]["final"]
        /\ "role" \in DOMAIN raw_events[i]
        /\ raw_events[i]["role"] = "model"
        /\ raw_events[i]["text"] # ""}

\* C9: the message of a success outcome is the text of the last terminal
\* event authored by the pipeline that carries a text; terminal events of
\* the caller and terminal events without text do not change it.
C9_LastAnswerIsMessage ==
    (Succeeded /\ Answers # {}) =>
        result.outcome.message = <<raw_events[LastOf(Answers)]["text"]>>

C9_Witness ==
    /\ Succeeded
    /\ Len(raw_events) = 3
    /\ Answers = {1, 2}
    /\ raw_events[1]["text"] # raw_events[2]["text"]
    /\ raw_events[3]["final"]
    /\ "role" \in DOMAIN raw_events[3]
    /\ raw_events[3]["role"] = "user"

\* C10 as stated: without any terminal text event of the pipeline the
\* message of the success outcome is "no response generated".
C10_SentinelIsNoResponse ==
    (Succeeded /\ Answers = {}) =>
        result.outcome.message = <<"no response generated">>

\* C10 as amended: without any terminal text event of the pipeline the
\* message of the success outcome is the text final_message starts with,
\* "Processing job search...".
C10_SentinelIsInitialMessage ==
    (Succeeded /\ Answers = {}) =>
        result.outcome.message = <<"Processing job search...">>

C10_Witness ==
    /\ Succeeded
    /\ Answers = {}
    /\ \E i, j \in 1..Len(raw_events) :
          /\ "role" \in DOMAIN raw_events[i]
          /\ raw_events[i]["role"] = "user"
          /\ "role" \in DOMAIN raw_events[j]
          /\ ~raw_events[j]["final"]
          /\ raw_events[j]["text"] # ""


(***************************************************************************)
(* Properties of the backfill, the event log and the extraction.          *)
(***************************************************************************)
\* The stream was started and ended by itself before the deadline.
NormalEnd ==
    /\ pc = "done"
    /\ Called("run_async")
    /\ stream_error = NoExc
    /\ ~deadline_elapsed
    /\ NotCancelled

ReadBack == trace # <<>> /\ trace[Len(trace)] = "get_session"
StateReadBack == sessions[session_id].state

\* C11: after the session was read back, an accumulator that no event set
\* holds the value the session state has for it, and an accumulator that an
\* event set holds the value of that event (or the document it parses to),
\* never the value of the session state.
C11_BackfillOnlyUnsetFields ==
    (Succeeded /\ ReadBack) =>
        /\ (UpdatesOf("job_listings") = {}
              /\ StateReadBack.job_listings # Absent) =>
               job_listings \in {StateReadBack.job_listings,
                                 Shown(StateReadBack.job_listings)}
        /\ (UpdatesOf("company_research_report") = {}
              /\ StateReadBack.company_research_report # Absent) =>
               company_research \in
                  {StateReadBack.company_research_report,
                   Shown(StateReadBack.company_research_report)}
        /\ UpdatesOf("job_listings") # {} =>
               job_listings \in {LastUpdate("job_listings"),
                                 Shown(LastUpdate("job_listings"))}
        /\ UpdatesOf("company_research_report") # {} =>
               company_research \in
                  {LastUpdate("company_research_report"),
                   Shown(LastUpdate("company_research_report"))}

\* C12: data.raw_events of a success outcome is the last min(n, 3) of the n
\* events the stream emitted, in emission order.
C12_RawEventsAreLastThree ==
    Succeeded =>
        /\ "raw_events" \in DOMAIN Data
        /\ LET n == Len(raw_events)
               k == IF n < 3 THEN n ELSE 3
           IN  /\ Len(Data["raw_events"]) = k
               /\ \A i \in 1..k :
                     Data["raw_events"][i] = raw_events[n - k + i]

C12_Witness ==
    /\ Succeeded
    /\ Len(raw_events) = 4
    /\ raw_events[1] # raw_events[4]
    /\ Len(Data["raw_events"]) = 3

\* The message a normally ended run is to return.
MessageAsAnswered ==
    result.outcome.message =
        IF Answers # {} THEN <<raw_events[LastOf(Answers)]["text"]>>
        ELSE <<"Processing job search...">>

\* C13: when the payload of one result field is a str that is not JSON,
\* the run still returns success, that field is not in data, and the other
\* field and the message are what they are without it.
C13_UnparseableFieldOmitted ==
    NormalEnd =>
        /\ (UpdatesOf("job_listings") # {}
              /\ LastUpdate("job_listings") = StrBad) =>
               /\ ReturnedStatus("success")
               /\ "job_listings" \notin DOMAIN Data
               /\ MessageAsAnswered
               /\ (UpdatesOf("company_research_report") # {}
                     /\ LastUpdate("company_research_report")
                           \in {M1, StrFenced}) =>
                      /\ "company_research" \in DOMAIN Data
                      /\ Data["company_research"] =
                            Shown(LastUpdate("company_research_report"))
        /\ (UpdatesOf("company_research_report") # {}
              /\ LastUpdate("company_research_report") = StrBad) =>
               /\ ReturnedStatus("success")
               /\ "company_research" \notin DOMAIN Data
               /\ MessageAsAnswered
               /\ (UpdatesOf("job_listings") # {}
                     /\ LastUpdate("job_listings")
                           \in {M1, M2, StrFenced}) =>
                      /\ "job_listings" \in DOMAIN Data
                      /\ Data["job_listings"] =
                            Shown(LastUpdate("job_listings"))

C13_Witness ==
    /\ NormalEnd
    /\ UpdatesOf("job_listings") # {}
    /\ LastUpdate("job_listings") = StrBad
    /\ UpdatesOf("company_research_report") # {}
    /\ LastUpdate("company_research_report") = StrFenced
    /\ Answers # {}
    /\ DOMAIN Data = {"raw_events", "company_research"}

\* C14 as stated: a str payload made of optional blanks, a fence, an optional
\* language tag of any kind, a newline, a JSON document J and a closing
\* fence, with optional blanks after it, is extracted as the document J.
FencedAs(tags, doc) ==
    \E pre \in BlankRuns, tag \in tags, mid \in ClosingLines,
       post \in BlankRuns :
        payload = Str(Fenced(pre, tag, doc, mid, post))

C14_AnyTagExtracted ==
    \A doc \in JsonDocs :
        (extracted # NoExtraction /\ FencedAs(LanguageTags, doc))
            => extracted.value = Dict(doc)

\* C14, amended: the same with the language tag json or no tag at all; a
\* fence that carries another tag is not removed, and the payload then
\* fails to parse.
C14_JsonTagExtracted ==
    \A doc \in JsonDocs :
        (extracted # NoExtraction /\ FencedAs({<<>>, <<"json">>}, doc))
            => extracted.value = Dict(doc)

C14_Witness ==
    /\ payload = Str(<<"ws", "fence", "json", "nl", "J1", "nl", "fence", "nl">>)
    /\ extracted = Extraction("job_listings", Dict("J1"))

\* C15: for each of the two fields, a payload that is a map is placed in
\* data as it is, and a payload that is a JSON string is placed in data as
\* the document it parses to.
C15_BothShapesExtracted ==
    NormalEnd =>
        /\ UpdatesOf("job_listings") # {} =>
              LET v == LastUpdate("job_listings")
              IN  v \in {M1, M2, StrFenced} =>
                     /\ "job_listings" \in DOMAIN Data
                     /\ Data["job_listings"] = Shown(v)
        /\ UpdatesOf("company_research_report") # {} =>
              LET v == LastUpdate("company_research_report")
              IN  v \in {M1, M2, StrFenced} =>
                     /\ "company_research" \in DOMAIN Data
                     /\ Data["company_research"] = Shown(v)

SessionLeft == earlier.session.exists
LookedUp == pc = "run_async" /\ calls > 1

C17_SessionCreatedOnce ==
    calls > 1 =>
        /\ earlier.creates + CreateCalls(trace) <= 1
        /\ (SessionLeft /\ LookedUp) =>
              /\ trace = <<"get_session">>
              /\ sessions[session_id] = earlier.session

TornDown == teardown.state \in {"returned", "raised"}
CloseCalled(a) == \E i \in 1..Len(releases) : releases[i].lease = a
CloseFailed == \E i \in 1..Len(releases) : releases[i].result # "ok"

\* C18: when the composite handle is exited, the leases are released in the
\* reverse of the order of their acquisition (company research, job
\* listing, job coach), and once the exit is over each of them has had its
\* close called and none is still held.
C18_ReleasedInReverseOrder ==
    /\ \A i \in 1..Len(releases) :
          releases[i].lease = AgentOrder[Len(AgentOrder) + 1 - i]
    /\ TornDown =>
          /\ Len(releases) = Len(AgentOrder)
          /\ \A a \in Agents : leases[a] # "held"

C18_Witness ==
    /\ teardown.state = "returned"
    /\ releases = <<Release("company_research", "ok"),
                    Release("job_listing", "ok"),
                    Release("job_coach", "ok")>>
    /\ \A a \in Agents : leases[a] = "released"

\* C19: if the close of one lease fails during the teardown of the composite
\* handle, the remaining leases are still released and the teardown does not
\* raise.
C19_CloseFailureTolerated ==
    (TornDown /\ CloseFailed) =>
        /\ \A a \in Agents : CloseCalled(a)
        /\ teardown.state = "returned"

\* C20: if the acquisition for the N-th agent fails while the pipeline is
\* built, the leases of agents 1..N-1 are released before the error leaves
\* create_coordinator_agent.
C20_AcquiredLeasesReleasedOnFailure ==
    build.pc = "raised" =>
        \A n \in 1..(build.next - 1) :
            n <= Len(AgentOrder) => leases[AgentOrder[n]] = "released"

Exited == mpc = "exited"
Acquired(a) == leases[a] # "none"
ReleasesOf(a) == {i \in 1..Len(releases) : releases[i].lease = a}
Serving == server_task \in ServerLive
HealthAnswers200 == health_runner = "up" /\ health.is_healthy

\* C21: in every run of main, when main has ended each lease acquired by the
\* pipeline build has been released exactly once: none is released twice
\* and none is left unreleased.
C21_LeasesReleasedExactlyOnce ==
    /\ \A a \in Agents : Cardinality(ReleasesOf(a)) <= 1
    /\ Exited => \A a \in Agents :
                    Acquired(a) => Cardinality(ReleasesOf(a)) = 1

\* C22: after a shutdown signal, with the main task itself not cancelled,
\* once main has set should_exit the leases
\* are released only when the server task has finished and no request is in
\* flight, and main returns only when no lease is held.
C22_ShutdownOrder ==
    (shutdown_event /\ should_exit /\ ~main_cancelled) =>
        /\ releases # <<>> => (server_task \in ServerDone /\ inflight = 0)
        /\ Exited => \A a \in Agents : leases[a] # "held"

\* C27: the health surface answers 200 only if the process can serve: the
\* agent initialisation has completed, the server task has been started and
\* has not finished, and shutdown has not begun.
C27_HealthyOnlyIfServing ==
    HealthAnswers200 =>
        /\ build.pc = "returned"
        /\ Serving
        /\ ~shutdown_event

\* C28: the readiness surface answers ready only if wait_for_dependencies
\* has succeeded.
C28_ReadyOnlyIfDependenciesResolved ==
    HealthAnswers200 => deps.ok

InitSucceeded == mpc = "agent_init" /\ build.pc = "returned"
ServingState ==
    /\ mpc = "waiting"
    /\ server_task # "none"
    /\ health.status = "healthy"
ConstructionFailed == mpc = "teardown" /\ server_task = "none"
ProbesBounded == deps.probes <= DependencyAttempts

DeclaredBefore(a) ==
    {SubAgents[i] : i \in {j \in 1..Len(SubAgents) :
                              \E k \in (j + 1)..Len(SubAgents) :
                                 SubAgents[k] = a}}
Finished(a) == \E i \in 1..Len(executed) : executed[i].agent = a

\* C23: within one task the sub-agents execute strictly in the declared
\* order: no sub-agent starts before every sub-agent declared before it has
\* finished, and each sub-agent finds in the session state what the ones
\* declared before it wrote.
C23_DeclaredOrder ==
    /\ running # "none" => \A b \in DeclaredBefore(running) : Finished(b)
    /\ \A i \in 1..Len(executed) :
          \A b \in DeclaredBefore(executed[i].agent) :
             OutputKeys(b) \subseteq executed[i].saw

SameKey == tasks["A"].key = tasks["B"].key
BothAbsent == \A c \in Calls : tasks[c].absent
BothDone == \A c \in Calls : tasks[c].pc = "done"
TaskReturned(c, st) ==
    /\ tasks[c].result.kind = "return"
    /\ tasks[c].result.outcome.status = st

\* C24: when two concurrent calls for the same key both find the session
\* absent and both go on to create it, both calls still return a
\* well-formed outcome (the store holds one session per key by
\* construction).
C24_ConcurrentCreation ==
    (SameKey /\ BothAbsent /\ BothDone) =>
        \A c \in Calls : TaskReturned(c, "success") \/ TaskReturned(c, "error")

\* The success outcome of a call run alone: built from its own events and
\* from a session that holds what its own pipeline wrote.
AloneSuccess(t) ==
    LET use == t.reread /\ t.wrote # EmptyState
        jl == IF use THEN Backfill(t.job_listings, t.wrote, "job_listings")
              ELSE t.job_listings
        cr == IF use
              THEN Backfill(t.company_research, t.wrote,
                            "company_research_report")
              ELSE t.company_research
    IN  SuccessOutcome(t.final_message, t.raw_events, jl, cr)

OwnEvents(c) ==
    \A i \in 1..Len(tasks[c].raw_events) :
        \E e \in TaskEvents(c) : tasks[c].raw_events[i] = ModelDump(e)

\* C25: when two calls with disjoint session keys run concurrently, under
\* any interleaving of their awaits the outcome of each is the outcome of
\* that call run alone: built from its own events and its own session.
C25_DisjointCallsIsolated ==
    ~SameKey =>
        \A c \in Calls :
            /\ OwnEvents(c)
            /\ tasks[c].pc = "done" =>
                  \/ /\ TaskReturned(c, "success")
                     /\ tasks[c].result.outcome = AloneSuccess(tasks[c])
                  \/ /\ TaskReturned(c, "error")
                     /\ \E e \in StreamExceptions :
                           tasks[c].result.outcome = ErrorOutcome(e)

C25_Witness ==
    /\ ~SameKey
    /\ BothDone
    /\ \A c \in Calls :
          /\ TaskReturned(c, "success")
          /\ Len(tasks[c].raw_events) = 1
          /\ "company_research" \in DOMAIN tasks[c].result.outcome.data
          /\ tasks[c].result.outcome.data["company_research"] = TaskWrites(c)

\* C26: process_task itself never changes the state of a session that
\* exists in the store: outside the run of the pipeline no step of a call
\* changes the stored session, get_session raising or not.
C26_OrchestratorLeavesStateAlone ==
    [][(sessions[session_id].exists /\ pc # "consume")
          => sessions'[session_id] = sessions[session_id]]_vars

\* C29: the approval tool returns, for every input, a status among pending,
\* approved and rejected together with a ticket id, and a pending result
\* does not make the outcome of the task an error: an error outcome then
\* comes from the stream raising or from the deadline.
C29_PendingIsOrdinary ==
    /\ approval # NoApproval =>
          /\ approval.status \in {"pending", "approved", "rejected"}
          /\ approval.ticket_id # ""
    /\ (pc = "done" /\ approval.status = "pending" /\ ReturnedStatus("error"))
          => (stream_error # NoExc \/ deadline_elapsed)

C29_Witness ==
    /\ pc = "done"
    /\ listings = <<"L1", "L2">>
    /\ approval.status = "pending"
    /\ ReturnedStatus("success")
    /\ Len(raw_events) = 2

(***************************************************************************)
(* Properties of the order of the steps, of the re-read, of the deadline  *)
(* and of the close of the stream.                                        *)
(***************************************************************************)
EnsureCalls == {"get_session", "get_session:raise",
                "create_session", "create_session:raise"}
StreamStarts == {"run_async", "run_async:raise"}
StreamCloses == {"aclose", "aclose:raise"}

\* C31: the steps of one call occur in the order validate, ensure session,
\* start stream, consume events, re-read session state, build outcome: the
\* store is called only for a valid request, the stream is started only
\* after the lookup or the creation of the session succeeded and the
\* session is in the store, events are consumed only from a started stream,
\* the session is read again only after the stream ended by itself and
\* aclose was called on it, and the success outcome is built only after
\* that second lookup.
C31_StepsInOrder ==
    /\ trace # <<>> => HasUserId
    /\ \A i \in 1..Len(trace) :
          trace[i] \in StreamStarts =>
             /\ sessions[session_id].exists
             /\ i > 1
             /\ trace[i - 1] \in {"get_session", "create_session"}
             /\ \A j \in 1..(i - 1) : trace[j] \in EnsureCalls
    /\ raw_events # <<>> => Called("run_async")
    /\ pc = "reread" =>
          /\ runner_generator = "closed"
          /\ stream_error = NoExc
          /\ ~deadline_elapsed
    /\ \A i, k \in 1..Len(trace) :
          (i < k /\ trace[i] = "run_async" /\ trace[k] \in Lookups) =>
             /\ k = Len(trace)
             /\ trace[k - 1] \in StreamCloses
    /\ Succeeded =>
          /\ trace[Len(trace)] \in Lookups
          /\ Called("run_async")

C31_Witness ==
    /\ Succeeded
    /\ Called("get_session:raise")
    /\ Called("create_session")
    /\ Len(raw_events) = 2
    /\ trace[Len(trace) - 1] = "aclose:raise"
    /\ trace[Len(trace)] = "get_session"

\* The value the events of the log left for a key: that of the last event
\* that updated it, None when no event did.
EventValue(key) == IF UpdatesOf(key) = {} THEN None ELSE LastUpdate(key)
LookupFailed ==
    trace # <<>>
    /\ trace[Len(trace)] \in {"get_session:none", "get_session:raise"}

\* C32: when the stream ended by itself and the re-read of the session
\* raises or returns no session, the call returns a success outcome whose
\* message is the one accumulated from the events and whose data is what
\* the extraction makes of the values accumulated from the events: nothing
\* of them is removed, nothing is taken from the stored state, and the
\* failure is not reported.
C32_RereadFailureIgnored ==
    (NormalEnd /\ LookupFailed) =>
        /\ ReturnedStatus("success")
        /\ result.outcome.message =
              <<IF Answers = {} THEN InitialMessage
                ELSE raw_events[LastOf(Answers)]["text"]>>
        /\ Data = ResponseData(raw_events, EventValue("job_listings"),
                               EventValue("company_research_report"))
        /\ "error_type" \notin DOMAIN Data

C32_Witness ==
    /\ Succeeded
    /\ trace[Len(trace)] = "get_session:raise"
    /\ sessions[session_id].state.company_research_report # Absent
    /\ UpdatesOf("job_listings") # {}
    /\ "job_listings" \in DOMAIN Data
    /\ "company_research" \notin DOMAIN Data
    /\ Answers # {}

\* C33: an outcome of the deadline-exceeded form (data.timeout present) is
\* returned only if the deadline elapsed before the stream ended, and a
\* timeout-class exception the pipeline raised before the deadline is
\* returned as a pipeline failure: error_type is its class and the message
\* carries its text.
C33_TimeoutOutcomeOnlyOnDeadline ==
    /\ (pc = "done" /\ result.kind = "return"
          /\ "timeout" \in DOMAIN result.outcome.data) => deadline_elapsed
    /\ (Completed /\ IsTimeoutError(stream_error) /\ ~deadline_elapsed) =>
          /\ ReturnedStatus("error")
          /\ ErrorType(stream_error.cls)
          /\ "timeout" \notin DOMAIN result.outcome.data
          /\ \E i \in 1..Len(result.outcome.message) :
                result.outcome.message[i] = stream_error.text

\* C34: an exception raised by aclose never changes the outcome: when the
\* deadline expired the call still returns the TimeoutError outcome with
\* its timeout, when the stream ended by itself it still returns the
\* success outcome, and when the stream raised it still returns the error
\* outcome of that exception.
C34_CloseFailureKeepsOutcome ==
    (Completed /\ Called("aclose:raise")) =>
        /\ result.kind = "return"
        /\ deadline_elapsed =>
              /\ ReturnedStatus("error")
              /\ ErrorType("TimeoutError")
              /\ result.outcome.data["timeout"] = timeout
        /\ NormalEnd =>
              /\ ReturnedStatus("success")
              /\ "error_type" \notin DOMAIN Data
        /\ (stream_error # NoExc /\ ~deadline_elapsed) =>
              /\ ReturnedStatus("error")
              /\ ErrorType(stream_error.cls)

C34_Witness ==
    /\ pc = "done"
    /\ deadline_elapsed
    /\ Called("aclose:raise")
    /\ ~Called("aclose")
    /\ Len(raw_events) >= 1
    /\ ReturnedStatus("error")

\* C35: whether a company_research_report payload that is a JSON string,
\* fenced or plain, shows in the success outcome as data.company_research
\* depends on that payload only: it is parsed and included when
\* job_listings is present and when job_listings is empty or was never
\* produced.
C35_CompanyResearchIndependent ==
    (NormalEnd /\ UpdatesOf("company_research_report") # {}) =>
        LET v == LastUpdate("company_research_report")
        IN  v \in {StrFenced, StrPlain} =>
               /\ "company_research" \in DOMAIN Data
               /\ Data["company_research"] = Shown(v)

\* C36: on deadline expiry the data of the returned outcome has the keys
\* error_type and timeout and no other: the updates already received from
\* events, the event log and the session state are left out, and the
\* session is not read again after the stream was started.
C36_TimeoutDataIsBare ==
    (Completed /\ deadline_elapsed) =>
        /\ result.kind = "return"
        /\ DOMAIN result.outcome.data = {"error_type", "timeout"}
        /\ \A i, k \in 1..Len(trace) :
              (i < k /\ trace[i] = "run_async") => trace[k] \notin Lookups

C36_Witness ==
    /\ pc = "done"
    /\ deadline_elapsed
    /\ job_listings # None
    /\ company_research # None
    /\ sessions[session_id].state # EmptyState
    /\ result.kind = "return"

(***************************************************************************)
(* Properties of the /run-job-search handler.                              *)
(***************************************************************************)
Handled == response # NoResponse
TaskSucceeded ==
    task_result.kind = "return" /\ task_result.outcome.status = "success"
TaskData == task_result.outcome.data
BothInData == {"job_listings", "company_research"} \subseteq DOMAIN TaskData
ParsedMessage == UnwrapMessage(task_result.outcome.message)
SchemaConformant(r) ==
    /\ r.kind = "response"
    /\ r.job_listings.schema = "JobListings"
    /\ Conforms("JobListings", r.job_listings.of)
    /\ r.company_research.schema = "CompanyResearch"
    /\ Conforms("CompanyResearch", r.company_research.of)
Over(items, key, default) ==
    IF key \in DOMAIN items THEN items[key] ELSE default

\* C37: whatever process_task returns or raises (cancellation of the
\* request aside), the handler returns a response that fits
\* JobSearchResponse and never lets an exception out: the two fields of the
\* outcome when its status is success and its data has both, else the
\* values of a message that is a JSON object laid over the default
\* structure, else (error status, message that is no JSON object, exception
\* of process_task or of the validation of the response) the default
\* structure.
C37_AlwaysSchemaConformant ==
    (Handled /\ task_result.exc # CancelledError) =>
        /\ SchemaConformant(response)
        /\ ~TaskSucceeded => response = DefaultResponse
        /\ (TaskSucceeded /\ BothInData) =>
              IF Conforms("JobListings", TaskData["job_listings"])
                 /\ Conforms("CompanyResearch", TaskData["company_research"])
              THEN /\ response.job_listings.of = TaskData["job_listings"]
                   /\ response.company_research.of =
                         TaskData["company_research"]
              ELSE response = DefaultResponse
        /\ (TaskSucceeded /\ ~BothInData) =>
              IF Truthy(ParsedMessage) /\ ParsedMessage.kind = "dict"
              THEN LET items == Items(ParsedMessage.v[1])
                       jl == Over(items, "job_listings", DefaultJobListings)
                       cr == Over(items, "company_research",
                                  DefaultCompanyResearch)
                   IN  IF Conforms("JobListings", jl)
                          /\ Conforms("CompanyResearch", cr)
                       THEN /\ response.job_listings.of = jl
                            /\ response.company_research.of = cr
                       ELSE response = DefaultResponse
              ELSE response = DefaultResponse

C37_Witness ==
    /\ Handled
    /\ task_result.kind = "raise"
    /\ task_result.exc \in CreateExceptions
    /\ response = DefaultResponse

\* C38: when the data of a success outcome has job_listings and not
\* company_research, the response carries these job listings and the
\* default company research, and the reverse when it has company_research
\* only.
C38_PartialResultsSurvive ==
    (Handled /\ TaskSucceeded) =>
        /\ ("job_listings" \in DOMAIN TaskData
              /\ "company_research" \notin DOMAIN TaskData
              /\ Conforms("JobListings", TaskData["job_listings"])) =>
               /\ SchemaConformant(response)
               /\ response.job_listings.of = TaskData["job_listings"]
               /\ response.company_research.of = DefaultCompanyResearch
        /\ ("company_research" \in DOMAIN TaskData
              /\ "job_listings" \notin DOMAIN TaskData
              /\ Conforms("CompanyResearch", TaskData["company_research"])) =>
               /\ SchemaConformant(response)
               /\ response.company_research.of = TaskData["company_research"]
               /\ response.job_listings.of = DefaultJobListings

(***************************************************************************)
(* Properties of the startup deadline and of the TaskTracker.              *)
(***************************************************************************)
StartupTimedOut == build.pc = "cancelled"

\* C39: when the agent initialisation does not complete within the startup
\* timeout, the health status is 'failed' and is_healthy false from then
\* on, main constructs no TaskManager and starts no server task, and main
\* ends by raising, after the finally clause ran: the startup task is done
\* and the health server is cleaned up.
C39_StartupTimeoutFailsCleanly ==
    StartupTimedOut =>
        /\ health.status = "failed"
        /\ ~health.is_healthy
        /\ server_task = "none"
        /\ mpc \in {"finally", "gather", "exited"}
        /\ teardown = NoTeardown
        /\ mpc = "exited" =>
              /\ main_result = "raised"
              /\ health_runner = "cleaned"

C39_Witness ==
    /\ StartupTimedOut
    /\ mpc = "exited"
    /\ main_result = "raised"
    /\ health_runner = "cleaned"
    /\ ~env_valid
    /\ shutdown_event

Tracked == {t \in TaskNames : tracked[t] # "new"}

\* C40: a tracked task that completed, failed or was cancelled is out of
\* running_tasks once its done callback ran; cleanup() never raises,
\* whatever the tracked tasks ended with; and once cleanup() has returned
\* every task that was tracked is done and running_tasks is empty.
C40_TrackerCleansUp ==
    /\ \A t \in TaskNames :
          (tracked[t] \in TaskDone /\ t \notin callbacks)
             => t \notin running_tasks
    /\ running_tasks \subseteq Tracked
    /\ tracker_pc # "raised"
    /\ tracker_pc = "returned" =>
          /\ running_tasks = {}
          /\ \A t \in Tracked : tracked[t] \in TaskDone

C40_Witness ==
    /\ tracker_pc = "returned"
    /\ gathered = TaskNames
    /\ tracked["agent_init"] = "failed"
    /\ tracked["uvicorn_server"] = "cancelled"
    /\ callbacks = {}

====
